---- MODULE Spec2Model ----
(***************************************************************************)
(* UVC webcam firmware of the XIAO ESP32S3 Sense (shop-lifter):            *)
(* the class-specific control-request handler, the stream state machine    *)
(* and the streaming task that packetizes camera frames.                   *)
(*                                                                         *)
(* The control-request handler runs in the USB control-transfer context    *)
(* and is one atomic action per request.  The streaming task is a          *)
(* FreeRTOS task; every statement of its loop that touches shared state or *)
(* the transport is a step of its own, so control requests interleave      *)
(* between any two of them.                                                *)
(***************************************************************************)
EXTENDS Integers, Sequences, FiniteSets, TLC

VARIABLES
    boot,              \* outcome of setup(): "boot" before it ran
    uvc_stream_state,  \* uvc_stream_state_t
    uvc_control,       \* the 34 bytes of the packed uvc_probe_commit_t
    handled,           \* return value of the last handle_uvc_control_request
    prevProbe,         \* payload of the request just served, when it was an
                       \* accepted SET_CUR on VS_PROBE_CONTROL, else << >>
    probed,            \* host side: the record of its last accepted SET_CUR
                       \* on VS_PROBE_CONTROL, << >> when there is none
    nreq,              \* number of control requests served
    pc,                \* position of uvc_task
    fb,                \* camera_fb_t *fb : 0 is NULL, else index in frames
    frames,            \* frames delivered by esp_camera_fb_get, in order
    returned,          \* per delivered frame: number of esp_camera_fb_return
    uvc_buffer,        \* written prefix of the streaming buffer
    jpeg_size,         \* uvc_task local
    bytes_sent,        \* uvc_task local
    bytes_remaining,   \* uvc_task local
    data_ptr,          \* uvc_task local, as an offset into uvc_buffer
    frame_count,       \* uvc_task local
    chan,              \* every USB.sendControl write of uvc_task, in order
    ctl,               \* the transfers of the last handle_uvc_control_request,
                       \* in order: USB.sendControl responses,
                       \* USB.recvControl reads
    rx,                \* the data stage USB.recvControl is copying into
                       \* uvc_control, << >> when no copy is under way
    wfail,             \* transport: some USB.sendControl of uvc_task failed
    dtable,            \* descriptor walk: index in usb_descriptors of the
                       \* table being read, 0 when none is
    drec,              \* descriptor walk: offset of the record being read
    dpos,              \* descriptor walk: bytes of that record read so far
    espNowMode,        \* follower feedback: mode of the arm
    lastPositionReportTime,  \* follower feedback: unsigned long, as
                       \* <<high half, low half>>
    now,               \* follower feedback: millis(), as <<high, low>>
    since,             \* follower feedback: the time gone since the last
                       \* sent record (since boot before the first), as
                       \* <<whole periods of the counter, rest>>
    records,           \* follower feedback: records written to Serial
    report,            \* follower feedback: the last call of
                       \* handlePositionReporting, << >> before the first
    ticks,             \* follower feedback: number of advances of the clock
    sensors,           \* follower feedback: radB .. radG, lastX .. lastZ
    posData,           \* follower feedback: the last record written to
                       \* Serial, as <<key, value>> pairs, << >> before it
    armIdentity,       \* arm identity: the String in RAM
    preferences,       \* arm identity: flash, "arm_id" of "arm_config",
                       \* << >> when the key was never written
    jsonInfoHttp,      \* arm identity: response of the last command
    lastSet            \* arm identity: the identity set last, << >> when
                       \* none ever was

vars == <<boot, uvc_stream_state, uvc_control, handled, prevProbe, probed,
          nreq, pc,
          fb, frames, returned, uvc_buffer, jpeg_size, bytes_sent,
          bytes_remaining, data_ptr, frame_count, chan, ctl, rx, wfail,
          dtable, drec, dpos, espNowMode, lastPositionReportTime, now, since,
          records, report, ticks, sensors, posData, armIdentity,
          preferences, jsonInfoHttp, lastSet>>

ctlVars  == <<uvc_control, handled, prevProbe, probed, nreq, ctl, rx>>
walkVars == <<dtable, drec, dpos>>
reportVars == <<espNowMode, lastPositionReportTime, now, since, records,
                report, ticks>>
identVars == <<armIdentity, preferences, jsonInfoHttp, lastSet>>
armVars == <<sensors, posData, identVars>>
otherVars == <<walkVars, reportVars, armVars>>
taskVars == <<pc, fb, frames, returned, uvc_buffer, jpeg_size, bytes_sent,
              bytes_remaining, data_ptr, frame_count>>

(***************************************************************************)
(* Bounds of the exploration.                                              *)
(***************************************************************************)
MaxRequests == 2      \* control requests the host sends
MaxFrames   == 2      \* frames the camera delivers
MaxTicks == 3         \* advances of the millis() clock

(***************************************************************************)
(* Program constants.                                                      *)
(***************************************************************************)
UVC_BUFFER_SIZE == 32 * 1024
UVC_PACKET_SIZE == 512
UVC_STREAMING_INTERFACE == 1
UVC_WIDTH_VGA  == 640
UVC_HEIGHT_VGA == 480
UVC_FPS == 15
UVC_INTERVAL == 10000000 \div UVC_FPS
UVC_EP_VIDEO == 129
EP_CTRL == 0
EP_IN == 1

UVC_SET_CUR  == 1
UVC_GET_CUR  == 129
UVC_GET_MIN  == 130
UVC_GET_MAX  == 131
UVC_GET_RES  == 132
UVC_GET_LEN  == 133
UVC_GET_INFO == 134
UVC_GET_DEF  == 135

VS_PROBE_CONTROL  == 1
VS_COMMIT_CONTROL == 2

UVC_STREAM_OFF   == "OFF"
UVC_STREAM_READY == "READY"
UVC_STREAM_ON    == "ON"

(***************************************************************************)
(* uvc_probe_commit_t: a packed struct, little-endian in memory.           *)
(***************************************************************************)
uvc_probe_commit_t ==
    << <<"bmHint", 2>>, <<"bFormatIndex", 1>>, <<"bFrameIndex", 1>>,
       <<"dwFrameInterval", 4>>, <<"wKeyFrameRate", 2>>, <<"wPFrameRate", 2>>,
       <<"wCompQuality", 2>>, <<"wCompWindowSize", 2>>, <<"wDelay", 2>>,
       <<"dwMaxVideoFrameSize", 4>>, <<"dwMaxPayloadTransferSize", 4>>,
       <<"dwClockFrequency", 4>>, <<"bmFramingInfo", 1>>,
       <<"bPreferedVersion", 1>>, <<"bMinVersion", 1>>, <<"bMaxVersion", 1>> >>

FieldNames == {uvc_probe_commit_t[i][1] : i \in 1..Len(uvc_probe_commit_t)}

RECURSIVE SizeUpTo(_)
SizeUpTo(n) == IF n = 0 THEN 0 ELSE SizeUpTo(n - 1) + uvc_probe_commit_t[n][2]

\* sizeof(uvc_control)
SizeofControl == SizeUpTo(Len(uvc_probe_commit_t))

FieldIndex(name) == CHOOSE i \in 1..Len(uvc_probe_commit_t) : uvc_probe_commit_t[i][1] = name
FieldOffset(name) == SizeUpTo(FieldIndex(name) - 1)
FieldSize(name)   == uvc_probe_commit_t[FieldIndex(name)][2]

RECURSIVE Pow256(_)
Pow256(n) == IF n = 0 THEN 1 ELSE 256 * Pow256(n - 1)

\* a store to a struct member: the value truncated to the member's width,
\* least significant byte first
StoreField(mem, name, value) ==
    LET off  == FieldOffset(name)
        size == FieldSize(name)
    IN  [i \in 1..Len(mem) |->
            IF i > off /\ i <= off + size
            THEN (value \div Pow256(i - off - 1)) % 256
            ELSE mem[i]]

RECURSIVE LoadBytes(_, _, _)
LoadBytes(mem, off, n) ==
    IF n = 0 THEN 0 ELSE mem[off + 1] + 256 * LoadBytes(mem, off + 1, n - 1)

\* a load of a struct member
LoadField(mem, name) == LoadBytes(mem, FieldOffset(name), FieldSize(name))

\* the record of member values held by 34 bytes of memory
Fields(mem) == [name \in FieldNames |-> LoadField(mem, name)]

ZeroControl == [i \in 1..SizeofControl |-> 0]

init_uvc_control_memset == ZeroControl

\* init_uvc_control(): memset, then one store per member
init_uvc_control ==
    LET m0  == ZeroControl
        m1  == StoreField(m0,  "bmHint", 0)
        m2  == StoreField(m1,  "bFormatIndex", 1)
        m3  == StoreField(m2,  "bFrameIndex", 1)
        m4  == StoreField(m3,  "dwFrameInterval", UVC_INTERVAL)
        m5  == StoreField(m4,  "wKeyFrameRate", 0)
        m6  == StoreField(m5,  "wPFrameRate", 0)
        m7  == StoreField(m6,  "wCompQuality", 0)
        m8  == StoreField(m7,  "wCompWindowSize", 0)
        m9  == StoreField(m8,  "wDelay", 0)
        m10 == StoreField(m9,  "dwMaxVideoFrameSize", UVC_WIDTH_VGA * UVC_HEIGHT_VGA * 2)
        m11 == StoreField(m10, "dwMaxPayloadTransferSize", UVC_PACKET_SIZE)
        m12 == StoreField(m11, "dwClockFrequency", 0)
        m13 == StoreField(m12, "bmFramingInfo", 0)
        m14 == StoreField(m13, "bPreferedVersion", 0)
        m15 == StoreField(m14, "bMinVersion", 0)
    IN  StoreField(m15, "bMaxVersion", 0)


(***************************************************************************)
(* The host side of a control transfer.                                    *)
(***************************************************************************)
\* records a host may propose in the data stage of a SET_CUR: the one the
\* device reports at boot, and one that differs from it in most members
HostRecords ==
    LET zero == [name \in FieldNames |-> 0]
    IN  { [zero EXCEPT !.bFormatIndex = 1, !.bFrameIndex = 1,
                       !.dwFrameInterval = 666666,
                       !.dwMaxVideoFrameSize = 614400,
                       !.dwMaxPayloadTransferSize = 512],
          [zero EXCEPT !.bmHint = 1, !.bFormatIndex = 3, !.bFrameIndex = 2,
                       !.dwFrameInterval = 333333, !.wCompQuality = 4660,
                       !.wDelay = 65535, !.dwMaxVideoFrameSize = 2147483647,
                       !.dwMaxPayloadTransferSize = 256,
                       !.dwClockFrequency = 6000000, !.bMaxVersion = 255] }

RECURSIVE StoreAll(_, _, _)
StoreAll(mem, rec, n) ==
    IF n = 0 THEN mem
    ELSE StoreField(StoreAll(mem, rec, n - 1),
                    uvc_probe_commit_t[n][1], rec[uvc_probe_commit_t[n][1]])

\* the wire image of a record: every member little-endian, no padding
WireImage(rec) == StoreAll(ZeroControl, rec, Len(uvc_probe_commit_t))

HostPayloads == {WireImage(r) : r \in HostRecords}

RequestTypes   == {33, 1}             \* 0x21 class, 0x01 standard
RequestCodes   == {UVC_SET_CUR, UVC_GET_CUR, UVC_GET_MIN, UVC_GET_MAX,
                   UVC_GET_DEF, UVC_GET_RES, UVC_GET_LEN, UVC_GET_INFO}
Selectors      == {VS_PROBE_CONTROL, VS_COMMIT_CONTROL, 3}
RequestIndexes == {257, 0}            \* wIndex: interface in the low byte
RequestLengths == {SizeofControl, 26}

\* the data stage the host sends with a request: only SET_CUR has one, and
\* it is wLength bytes long
DataStage(bRequest, wLength) ==
    IF bRequest = UVC_SET_CUR
    THEN {SubSeq(p, 1, wLength) : p \in HostPayloads}
    ELSE {<< >>}

(***************************************************************************)
(* setup()                                                                 *)
(***************************************************************************)
UvcInit ==
    /\ boot = "boot"
    /\ uvc_stream_state = UVC_STREAM_OFF
    /\ uvc_control = ZeroControl
    /\ handled = FALSE
    /\ prevProbe = << >>
    /\ probed = << >>
    /\ nreq = 0
    /\ pc = "none"
    /\ fb = 0
    /\ frames = << >>
    /\ returned = << >>
    /\ uvc_buffer = << >>
    /\ jpeg_size = 0
    /\ bytes_sent = 0
    /\ bytes_remaining = 0
    /\ data_ptr = 0
    /\ frame_count = 0
    /\ chan = << >>
    /\ ctl = << >>
    /\ rx = << >>
    /\ wfail = FALSE

\* no descriptor table is being read, the arm feedback has not run
Init ==
    /\ UvcInit
    /\ dtable = 0
    /\ drec = 0
    /\ dpos = 0
    /\ espNowMode = 0
    /\ lastPositionReportTime = <<0, 0>>
    /\ now = <<0, 0>>
    /\ since = <<0, <<0, 0>>>>
    /\ records = 0
    /\ report = << >>
    /\ ticks = 0
    /\ sensors = [radB |-> 1, radS |-> 2, radE |-> 3, radT |-> 4, radR |-> 5,
                  radG |-> 6, lastX |-> 7, lastY |-> 8, lastZ |-> 9]
    /\ posData = << >>
    /\ armIdentity = "unknown"
    /\ preferences = << >>
    /\ jsonInfoHttp = << >>
    /\ lastSet = << >>

Setup_alwaysStarts ==
    /\ boot = "boot"
    /\ \E outcome \in {"camera_failed", "alloc_failed", "sem_failed", "running"} :
          /\ boot' = outcome
          /\ uvc_control' = init_uvc_control
          /\ pc' = "top"
    /\ UNCHANGED <<uvc_stream_state, handled, prevProbe, probed, nreq, fb, frames,
                   returned, uvc_buffer, jpeg_size, bytes_sent,
                   bytes_remaining, data_ptr, frame_count, chan, ctl, rx,
                   wfail, otherVars>>

\* setup(): returns early when the camera, the buffer or the semaphore
\* fails; otherwise initialises uvc_control, registers the control callback
\* and creates uvc_task
Setup ==
    /\ boot = "boot"
    /\ \E outcome \in {"camera_failed", "alloc_failed", "sem_failed", "running"} :
          /\ boot' = outcome
          /\ IF outcome = "running"
             THEN /\ uvc_control' = init_uvc_control
                  /\ pc' = "top"
             ELSE UNCHANGED <<uvc_control, pc>>
    /\ UNCHANGED <<uvc_stream_state, handled, prevProbe, probed, nreq, fb, frames,
                   returned, uvc_buffer, jpeg_size, bytes_sent,
                   bytes_remaining, data_ptr, frame_count, chan, ctl, rx,
                   wfail, otherVars>>

(***************************************************************************)
(* handle_uvc_control_request                                              *)
(***************************************************************************)
IsClassRequest(bmRequestType) == (bmRequestType \div 32) % 4 = 1
InterfaceIdx(wIndex) == wIndex % 256

\* USB.sendControl(&uvc_control, sizeof(uvc_control)) of the handler
ControlResponse(mem) ==
    [src |-> "handler", ep |-> EP_CTRL, kind |-> "resp", bytes |-> mem,
     state |-> uvc_stream_state, frame |-> 0]

\* USB.recvControl(&uvc_control, sizeof(uvc_control)): the data stage read;
\* the entry notes the stream state the read found and the frame uvc_task
\* was packetizing at that moment, packets of it still due (0 when none)
ControlRead(data) ==
    [src |-> "handler", ep |-> EP_CTRL, kind |-> "recv", bytes |-> data,
     state |-> uvc_stream_state,
     frame |-> IF pc \in {"loop", "payload"} /\ bytes_remaining > 0
               THEN fb ELSE 0]

ReachesSwitch_anyInterface(bmRequestType, wValueH, wIndex) ==
    /\ IsClassRequest(bmRequestType)
    /\ wValueH \in {VS_PROBE_CONTROL, VS_COMMIT_CONTROL}

\* does the request reach the switch on bRequest?
ReachesSwitch(bmRequestType, wValueH, wIndex) ==
    /\ IsClassRequest(bmRequestType)
    /\ InterfaceIdx(wIndex) = UVC_STREAMING_INTERFACE
    /\ wValueH \in {VS_PROBE_CONTROL, VS_COMMIT_CONTROL}

IsGetRequest(bRequest) ==
    bRequest \in {UVC_GET_CUR, UVC_GET_MIN, UVC_GET_MAX, UVC_GET_DEF}

\* the GET_CUR / GET_MIN / GET_MAX / GET_DEF case: no check of wLength
GetAccepted(bRequest, wLength) == IsGetRequest(bRequest)

SetAccepted_anyLength(bRequest, wLength) == bRequest = UVC_SET_CUR

\* the SET_CUR case
SetAccepted(bRequest, wLength) ==
    bRequest = UVC_SET_CUR /\ wLength = SizeofControl

CommitState_direct(wValueH, state) ==
    IF wValueH = VS_COMMIT_CONTROL /\ state = UVC_STREAM_OFF
    THEN UVC_STREAM_ON
    ELSE state

CommitState_restart(wValueH, state) ==
    IF wValueH = VS_COMMIT_CONTROL THEN UVC_STREAM_READY ELSE state

CommitState_any(wValueH, state) ==
    IF state = UVC_STREAM_OFF THEN UVC_STREAM_READY ELSE state

\* the state after an accepted SET_CUR
CommitState(wValueH, state) ==
    IF wValueH = VS_COMMIT_CONTROL /\ state = UVC_STREAM_OFF
    THEN UVC_STREAM_READY
    ELSE state

\* what a GET_* request sends
GetResponse(bRequest, mem) == mem

RecvControl_v10(mem, data) ==
    [i \in 1..Len(mem) |-> IF i <= 26 /\ i <= Len(data) THEN data[i] ELSE mem[i]]

\* what USB.recvControl leaves in uvc_control
RecvControl(mem, data) ==
    [i \in 1..Len(mem) |-> IF i <= Len(data) THEN data[i] ELSE mem[i]]

handle_uvc_control_request(bmRequestType, bRequest, wValueH, wValueL, wIndex, wLength, data) ==
    /\ boot = "running"
    /\ nreq < MaxRequests
    /\ rx = << >>
    /\ nreq' = nreq + 1
    /\ IF ReachesSwitch(bmRequestType, wValueH, wIndex) /\ GetAccepted(bRequest, wLength)
       THEN /\ ctl' = <<ControlResponse(GetResponse(bRequest, uvc_control))>>
            /\ handled' = TRUE
            /\ prevProbe' = << >>
            /\ UNCHANGED <<uvc_control, uvc_stream_state, probed>>
       ELSE IF ReachesSwitch(bmRequestType, wValueH, wIndex) /\ SetAccepted(bRequest, wLength)
       THEN /\ uvc_control' = RecvControl(uvc_control, data)
            /\ uvc_stream_state' = CommitState(wValueH, uvc_stream_state)
            /\ handled' = TRUE
            /\ prevProbe' = IF wValueH = VS_PROBE_CONTROL THEN data ELSE << >>
            /\ probed' = IF wValueH = VS_PROBE_CONTROL THEN data ELSE probed
            /\ ctl' = <<ControlRead(data)>>
       ELSE /\ handled' = FALSE
            /\ prevProbe' = << >>
            /\ ctl' = << >>
            /\ UNCHANGED <<uvc_control, uvc_stream_state, probed>>
    /\ UNCHANGED <<boot, otherVars, taskVars, chan, rx, wfail>>

\* in how many respects the request misses what the handler serves: type,
\* interface, selector, request code, length
Deviations(t, b, cs, idx, len) ==
      (IF IsClassRequest(t) THEN 0 ELSE 1)
    + (IF InterfaceIdx(idx) = UVC_STREAMING_INTERFACE THEN 0 ELSE 1)
    + (IF cs \in {VS_PROBE_CONTROL, VS_COMMIT_CONTROL} THEN 0 ELSE 1)
    + (IF b = UVC_SET_CUR \/ IsGetRequest(b) THEN 0 ELSE 1)
    + (IF len = SizeofControl THEN 0 ELSE 1)

\* the host sends the requests the handler serves and those that miss them
\* in one respect (the handler's tests are nested: a request that misses in
\* two respects leaves at the first)
ControlRequest ==
    \E t \in RequestTypes, b \in RequestCodes, cs \in Selectors,
       idx \in RequestIndexes, len \in RequestLengths :
       /\ Deviations(t, b, cs, idx, len) <= 1
       /\ \E data \in DataStage(b, len) :
             handle_uvc_control_request(t, b, cs, 0, idx, len, data)


(***************************************************************************)
(* The Frame Source: esp_camera_fb_get / esp_camera_fb_return              *)
(***************************************************************************)
\* frames the camera may deliver: empty, one full packet, three packets
\* (two full ones and one byte), and one byte more than the streaming
\* buffer holds
FrameKinds ==
    { [len |-> 0, seed |-> 0],
      [len |-> UVC_PACKET_SIZE, seed |-> 23],
      [len |-> 2 * UVC_PACKET_SIZE + 1, seed |-> 41],
      [len |-> UVC_BUFFER_SIZE + 1, seed |-> 53] }

\* byte i (from 0) of the fb->buf of a frame with the given seed
FrameByte(seed, i) == (seed + 7 * i + 13 * (i \div 256)) % 251

(***************************************************************************)
(* Byte strings of frame data are kept as runs: the run                    *)
(* [seed, from, len] stands for the len bytes FrameByte(seed, from),       *)
(* FrameByte(seed, from + 1), ...  Seed -1 marks memory never written.     *)
(***************************************************************************)
RECURSIVE RunsLen(_)
RunsLen(rs) == IF rs = << >> THEN 0 ELSE Head(rs).len + RunsLen(Tail(rs))

\* byte i (from 0) of a run list
RECURSIVE ByteAt(_, _)
ByteAt(rs, i) ==
    IF i < Head(rs).len
    THEN IF Head(rs).seed = -1 THEN -1 ELSE FrameByte(Head(rs).seed, Head(rs).from + i)
    ELSE ByteAt(Tail(rs), i - Head(rs).len)

\* concatenation; runs that continue one another are joined
Cat(a, b) ==
    IF a = << >> THEN b
    ELSE IF b = << >> THEN a
    ELSE LET x == a[Len(a)]
             y == Head(b)
         IN  IF x.seed = y.seed /\ x.seed # -1 /\ x.from + x.len = y.from
             THEN SubSeq(a, 1, Len(a) - 1)
                  \o <<[seed |-> x.seed, from |-> x.from, len |-> x.len + y.len]>>
                  \o Tail(b)
             ELSE a \o b

\* the n bytes from offset off; bytes past the end are unwritten memory
RECURSIVE Slice(_, _, _)
Slice(rs, off, n) ==
    IF n = 0 THEN << >>
    ELSE IF rs = << >> THEN <<[seed |-> -1, from |-> 0, len |-> n]>>
    ELSE LET h == Head(rs)
         IN  IF off >= h.len THEN Slice(Tail(rs), off - h.len, n)
             ELSE LET k == IF off + n <= h.len THEN n ELSE h.len - off
                  IN  Cat(<<[seed |-> h.seed, from |-> h.from + off, len |-> k]>>,
                          Slice(Tail(rs), 0, n - k))

\* the bytes of fb->buf
FrameData(f) ==
    IF f.len = 0 THEN << >> ELSE <<[seed |-> f.seed, from |-> 0, len |-> f.len]>>

(***************************************************************************)
(* uvc_task                                                                *)
(***************************************************************************)
Memcpy_short(buf, f, n) ==
    LET m == IF n > UVC_PACKET_SIZE THEN UVC_PACKET_SIZE ELSE n
    IN  Cat(Slice(FrameData(f), 0, m),
            IF RunsLen(buf) > m THEN Slice(buf, m, RunsLen(buf) - m) ELSE << >>)

\* memcpy(uvc_buffer, fb->buf, n): the bytes beyond n keep what they held
Memcpy(buf, f, n) ==
    Cat(Slice(FrameData(f), 0, n),
        IF RunsLen(buf) > n THEN Slice(buf, n, RunsLen(buf) - n) ELSE << >>)

FitsBuffer_always(size) == TRUE

\* does the frame go to the packetization loop?
FitsBuffer(size) == size <= UVC_BUFFER_SIZE

PacketSize_full(remaining) == UVC_PACKET_SIZE

\* line 354: the payload bytes of the next packet
PacketSize(remaining) ==
    IF remaining > UVC_PACKET_SIZE THEN UVC_PACKET_SIZE ELSE remaining

IsLastPacket_strict(remaining) == remaining < UVC_PACKET_SIZE

IsLastPacket(remaining) == remaining <= UVC_PACKET_SIZE

\* the two header bytes send_uvc_header builds
UvcHeader(end_of_frame) == <<2, IF end_of_frame THEN 2 ELSE 0>>

\* a USB.sendControl of send_uvc_header: the header bytes, or the payload
\* taken from the buffer at data_ptr; USB.sendControl writes to the control
\* pipe
TaskWrite(kind, off, bytes, data) ==
    [src |-> "task", ep |-> EP_CTRL, frame |-> fb, kind |-> kind, off |-> off,
     bytes |-> bytes, data |-> data]

Promote_never(state) == state

\* lines 321-322: the state the loop head leaves
Promote(state) ==
    IF state = UVC_STREAM_READY THEN UVC_STREAM_ON ELSE state

\* lines 321-326: first-seen promotion READY -> ON
TaskPromote ==
    /\ pc = "top"
    /\ uvc_stream_state' = Promote(uvc_stream_state)
    /\ pc' = "check"
    /\ UNCHANGED <<boot, otherVars, ctlVars, wfail, fb, frames, returned, uvc_buffer, jpeg_size,
                   bytes_sent, bytes_remaining, data_ptr, frame_count, chan>>

TaskCheckOn_notOff ==
    /\ pc = "check"
    /\ pc' = IF uvc_stream_state # UVC_STREAM_OFF THEN "acquire" ELSE "idle"
    /\ UNCHANGED <<boot, otherVars, uvc_stream_state, ctlVars, wfail, fb, frames, returned,
                   uvc_buffer, jpeg_size, bytes_sent, bytes_remaining,
                   data_ptr, frame_count, chan>>

\* line 328
TaskCheckOn ==
    /\ pc = "check"
    /\ pc' = IF uvc_stream_state = UVC_STREAM_ON THEN "acquire" ELSE "idle"
    /\ UNCHANGED <<boot, otherVars, uvc_stream_state, ctlVars, wfail, fb, frames, returned,
                   uvc_buffer, jpeg_size, bytes_sent, bytes_remaining,
                   data_ptr, frame_count, chan>>

\* line 378: vTaskDelay(100 ms) while not streaming
TaskIdle ==
    /\ pc = "idle"
    /\ pc' = "top"
    /\ UNCHANGED <<boot, otherVars, uvc_stream_state, ctlVars, wfail, fb, frames, returned,
                   uvc_buffer, jpeg_size, bytes_sent, bytes_remaining,
                   data_ptr, frame_count, chan>>

TaskAcquireFail_stop ==
    /\ pc = "acquire"
    /\ fb' = 0
    /\ pc' = "backoff"
    /\ uvc_stream_state' = UVC_STREAM_OFF
    /\ UNCHANGED <<boot, otherVars, ctlVars, wfail, frames, returned,
                   uvc_buffer, jpeg_size, bytes_sent, bytes_remaining,
                   data_ptr, frame_count, chan>>

\* line 330, the camera has no frame: fb = NULL
TaskAcquireFail ==
    /\ pc = "acquire"
    /\ fb' = 0
    /\ pc' = "backoff"
    /\ UNCHANGED <<boot, otherVars, uvc_stream_state, ctlVars, wfail, frames, returned,
                   uvc_buffer, jpeg_size, bytes_sent, bytes_remaining,
                   data_ptr, frame_count, chan>>

\* line 330, the camera delivers a frame
TaskAcquire ==
    /\ pc = "acquire"
    /\ Len(frames) < MaxFrames
    /\ \E f \in FrameKinds :
          /\ frames' = Append(frames, f)
          /\ returned' = Append(returned, 0)
    /\ fb' = Len(frames) + 1
    /\ pc' = "got"
    /\ UNCHANGED <<boot, otherVars, uvc_stream_state, ctlVars, wfail, uvc_buffer, jpeg_size,
                   bytes_sent, bytes_remaining, data_ptr, frame_count, chan>>

TaskBackoff_stop ==
    /\ pc = "backoff"
    /\ pc' = "idle"
    /\ uvc_stream_state' = UVC_STREAM_OFF
    /\ UNCHANGED <<boot, otherVars, ctlVars, wfail, fb, frames, returned,
                   uvc_buffer, jpeg_size, bytes_sent, bytes_remaining,
                   data_ptr, frame_count, chan>>

\* lines 331-335: vTaskDelay(100 ms), continue
TaskBackoff ==
    /\ pc = "backoff"
    /\ pc' = "top"
    /\ UNCHANGED <<boot, otherVars, uvc_stream_state, ctlVars, wfail, fb, frames, returned,
                   uvc_buffer, jpeg_size, bytes_sent, bytes_remaining,
                   data_ptr, frame_count, chan>>

OversizeNext_leak == "yield"

\* lines 364-371: where the task goes with a frame that does not fit: past
\* the else branch to esp_camera_fb_return
OversizeNext == "return"

\* lines 337-351 and 364-368: read the length; copy the frame and set up the
\* loop, or skip a frame that does not fit
TaskCopy ==
    /\ pc = "got"
    /\ jpeg_size' = frames[fb].len
    /\ IF FitsBuffer(frames[fb].len)
       THEN /\ uvc_buffer' = Memcpy(uvc_buffer, frames[fb], frames[fb].len)
            /\ bytes_sent' = 0
            /\ bytes_remaining' = frames[fb].len
            /\ data_ptr' = 0
            /\ pc' = "loop"
       ELSE /\ pc' = OversizeNext
            /\ UNCHANGED <<uvc_buffer, bytes_sent, bytes_remaining, data_ptr>>
    /\ UNCHANGED <<boot, otherVars, uvc_stream_state, ctlVars, wfail, fb, frames, returned,
                   frame_count, chan>>

\* lines 353-358 and 386-393: another packet is due; its header is written
TaskSendHeader ==
    /\ pc = "loop"
    /\ bytes_remaining > 0
    /\ chan' = Append(chan, TaskWrite("hdr", data_ptr,
                                      UvcHeader(IsLastPacket(bytes_remaining)), << >>))
    /\ pc' = "payload"
    /\ UNCHANGED <<boot, otherVars, uvc_stream_state, ctlVars, wfail, fb, frames, returned,
                   uvc_buffer, jpeg_size, bytes_sent, bytes_remaining,
                   data_ptr, frame_count>>

\* lines 394 and 360-362: the payload is written, the cursors advance
TaskSendPayload ==
    /\ pc = "payload"
    /\ LET packet_size == PacketSize(bytes_remaining)
       IN  /\ chan' = Append(chan, TaskWrite("data", data_ptr, << >>,
                                Slice(uvc_buffer, data_ptr, packet_size)))
           /\ data_ptr' = data_ptr + packet_size
           /\ bytes_sent' = bytes_sent + packet_size
           /\ bytes_remaining' = bytes_remaining - packet_size
    /\ pc' = "loop"
    /\ UNCHANGED <<boot, otherVars, uvc_stream_state, ctlVars, wfail, fb, frames, returned,
                   uvc_buffer, jpeg_size, frame_count>>

\* line 353: nothing remains
TaskLoopDone ==
    /\ pc = "loop"
    /\ bytes_remaining = 0
    /\ pc' = "return"
    /\ UNCHANGED <<boot, otherVars, uvc_stream_state, ctlVars, wfail, fb, frames, returned,
                   uvc_buffer, jpeg_size, bytes_sent, bytes_remaining,
                   data_ptr, frame_count, chan>>

\* esp_camera_fb_return(f): the frame goes back to the camera
Released(ret, f) == [ret EXCEPT ![f] = @ + 1]

\* lines 371-372: esp_camera_fb_return(fb); frame_count++
TaskReturn ==
    /\ pc = "return"
    /\ returned' = Released(returned, fb)
    /\ frame_count' = frame_count + 1
    /\ pc' = "yield"
    /\ UNCHANGED <<boot, otherVars, uvc_stream_state, ctlVars, wfail, fb, frames, uvc_buffer,
                   jpeg_size, bytes_sent, bytes_remaining, data_ptr, chan>>

\* line 375: vTaskDelay(5 ms)
TaskYield ==
    /\ pc = "yield"
    /\ pc' = "top"
    /\ UNCHANGED <<boot, otherVars, uvc_stream_state, ctlVars, wfail, fb, frames, returned,
                   uvc_buffer, jpeg_size, bytes_sent, bytes_remaining,
                   data_ptr, frame_count, chan>>

uvc_task ==
    \/ TaskPromote
    \/ TaskCheckOn
    \/ TaskIdle
    \/ TaskAcquireFail
    \/ TaskAcquire
    \/ TaskBackoff
    \/ TaskCopy
    \/ TaskSendHeader
    \/ TaskSendPayload
    \/ TaskLoopDone
    \/ TaskReturn
    \/ TaskYield

Next ==
    \/ Setup
    \/ ControlRequest
    \/ uvc_task

Spec == Init /\ [][Next]_vars

\* the streaming task is scheduled fairly (FreeRTOS task of priority 5 that
\* sleeps in every iteration)
FairSpec == Spec /\ WF_vars(uvc_task)

\* the program with a camera that never has a frame: esp_camera_fb_get
\* returns NULL every time, so the task only ever promotes, polls, tries to
\* acquire and backs off
starved_task ==
    \/ TaskPromote
    \/ TaskCheckOn
    \/ TaskIdle
    \/ TaskAcquireFail
    \/ TaskBackoff

StarvedNext ==
    \/ Setup
    \/ ControlRequest
    \/ starved_task

StarvedSpec == Init /\ [][StarvedNext]_vars

FairStarvedSpec == StarvedSpec /\ WF_vars(starved_task)

(***************************************************************************)
(* The handler runs in the USB context, uvc_task is pinned to core 1, and  *)
(* nothing orders the two (frame_semaphore is created and never taken).    *)
(* The task reads uvc_stream_state only, which the handler writes last, so *)
(* serving a request in one step loses no behaviour of the program's own   *)
(* variables; what it hides is the content of uvc_control while            *)
(* USB.recvControl is copying.  RaceSpec shows it: the copy is two steps   *)
(* with the task running in between.                                       *)
(***************************************************************************)
\* bytes already copied when the task gets to run
TearPoints == {1, 16, 33}

\* SET_CUR, lines 292-294: the request passed the tests and the first n
\* bytes of the data stage are in uvc_control
RecvBegin(bmRequestType, wValueH, wIndex, wLength, data, n) ==
    /\ boot = "running"
    /\ nreq < MaxRequests
    /\ rx = << >>
    /\ ReachesSwitch(bmRequestType, wValueH, wIndex)
    /\ SetAccepted(UVC_SET_CUR, wLength)
    /\ uvc_control' = RecvControl(uvc_control, SubSeq(data, 1, n))
    /\ rx' = [cs |-> wValueH, data |-> data]
    /\ UNCHANGED <<boot, otherVars, uvc_stream_state, handled, prevProbe, probed, nreq,
                   ctl, taskVars, chan, wfail>>

\* lines 294-303: the rest of the copy, the state, the return value
RecvEnd ==
    /\ rx # << >>
    /\ uvc_control' = RecvControl(uvc_control, rx.data)
    /\ uvc_stream_state' = CommitState(rx.cs, uvc_stream_state)
    /\ handled' = TRUE
    /\ prevProbe' = IF rx.cs = VS_PROBE_CONTROL THEN rx.data ELSE << >>
    /\ probed' = IF rx.cs = VS_PROBE_CONTROL THEN rx.data ELSE probed
    /\ ctl' = <<ControlRead(rx.data)>>
    /\ nreq' = nreq + 1
    /\ rx' = << >>
    /\ UNCHANGED <<boot, otherVars, taskVars, chan, wfail>>

TornRequest ==
    \/ \E t \in RequestTypes, cs \in Selectors, idx \in RequestIndexes,
          len \in RequestLengths, data \in HostPayloads, n \in TearPoints :
          RecvBegin(t, cs, idx, len, data, n)
    \/ RecvEnd

RaceNext ==
    \/ Setup
    \/ ControlRequest
    \/ TornRequest
    \/ uvc_task

RaceSpec == Init /\ [][RaceNext]_vars

(***************************************************************************)
(* send_uvc_header ignores what USB.sendControl returns.  LossySpec lets   *)
(* the writes of the task fail: the call is made, the program goes on as   *)
(* after a write that succeeded, the transport notes the failure.          *)
(***************************************************************************)
TaskSendHeaderFail_abort ==
    /\ pc = "loop"
    /\ bytes_remaining > 0
    /\ chan' = Append(chan, TaskWrite("hdr", data_ptr,
                                      UvcHeader(IsLastPacket(bytes_remaining)), << >>))
    /\ pc' = "yield"
    /\ wfail' = TRUE
    /\ UNCHANGED <<boot, otherVars, uvc_stream_state, ctlVars, fb, frames, returned,
                   uvc_buffer, jpeg_size, bytes_sent, bytes_remaining,
                   data_ptr, frame_count>>

\* line 393 with a failing USB.sendControl
TaskSendHeaderFail ==
    /\ pc = "loop"
    /\ bytes_remaining > 0
    /\ chan' = Append(chan, TaskWrite("hdr", data_ptr,
                                      UvcHeader(IsLastPacket(bytes_remaining)), << >>))
    /\ pc' = "payload"
    /\ wfail' = TRUE
    /\ UNCHANGED <<boot, otherVars, uvc_stream_state, ctlVars, fb, frames, returned,
                   uvc_buffer, jpeg_size, bytes_sent, bytes_remaining,
                   data_ptr, frame_count>>

\* line 394 with a failing USB.sendControl, then lines 360-362
TaskSendPayloadFail ==
    /\ pc = "payload"
    /\ LET packet_size == PacketSize(bytes_remaining)
       IN  /\ chan' = Append(chan, TaskWrite("data", data_ptr, << >>,
                                Slice(uvc_buffer, data_ptr, packet_size)))
           /\ data_ptr' = data_ptr + packet_size
           /\ bytes_sent' = bytes_sent + packet_size
           /\ bytes_remaining' = bytes_remaining - packet_size
    /\ pc' = "loop"
    /\ wfail' = TRUE
    /\ UNCHANGED <<boot, otherVars, uvc_stream_state, ctlVars, fb, frames, returned,
                   uvc_buffer, jpeg_size, frame_count>>

lossy_task ==
    \/ uvc_task
    \/ TaskSendHeaderFail
    \/ TaskSendPayloadFail

LossyNext ==
    \/ Setup
    \/ ControlRequest
    \/ lossy_task

LossySpec == Init /\ [][LossyNext]_vars

(***************************************************************************)
(* usb_descriptors.c: the descriptor tables, byte for byte.  "x & 0xff" is *)
(* x % 256, "x >> n" stored in a uint8_t is (x \div 2^n) % 256, a          *)
(* character is its ASCII code.                                            *)
(***************************************************************************)
USB_VID == 12346
USB_PID == 4097
USB_CONFIG_POWER == 50
UVC_WIDTH_QVGA  == 320
UVC_HEIGHT_QVGA == 240

\* USB Device Descriptor
device_descriptor == <<
    18,                        \* bLength
    1,                         \* bDescriptorType (Device)
    0, 2,                      \* bcdUSB 2.00
    239,                       \* bDeviceClass (Miscellaneous)
    2,                         \* bDeviceSubClass (Common)
    1,                         \* bDeviceProtocol (Interface Association Descriptor)
    64,                        \* bMaxPacketSize0 64
    USB_VID % 256, (USB_VID \div 256) % 256, \* idVendor
    USB_PID % 256, (USB_PID \div 256) % 256, \* idProduct
    0, 1,                      \* bcdDevice 1.00
    1,                         \* iManufacturer (String Index)
    2,                         \* iProduct (String Index)
    3,                         \* iSerialNumber (String Index)
    1                          \* bNumConfigurations 1
>>

\* USB Configuration Descriptor
config_descriptor == <<
    \* Configuration Descriptor
    9,                         \* bLength
    2,                         \* bDescriptorType (Configuration)
    232, 0,                    \* wTotalLength 232
    2,                         \* bNumInterfaces 2
    1,                         \* bConfigurationValue
    0,                         \* iConfiguration (String Index)
    128,                       \* bmAttributes (Bus Powered)
    USB_CONFIG_POWER,          \* bMaxPower 100mA
    \* Interface Association Descriptor
    8,                         \* bLength
    11,                        \* bDescriptorType (Interface Association)
    0,                         \* bFirstInterface
    2,                         \* bInterfaceCount
    14,                        \* bFunctionClass (Video)
    3,                         \* bFunctionSubClass (Video Interface Collection)
    0,                         \* bFunctionProtocol
    0,                         \* iFunction (String Index)
    \* Video Control Interface Descriptor
    9,                         \* bLength
    4,                         \* bDescriptorType (Interface)
    0,                         \* bInterfaceNumber 0
    0,                         \* bAlternateSetting
    1,                         \* bNumEndpoints 1
    14,                        \* bInterfaceClass (Video)
    1,                         \* bInterfaceSubClass (Video Control)
    0,                         \* bInterfaceProtocol
    0,                         \* iInterface (String Index)
    \* Video Control Interface Header Descriptor
    13,                        \* bLength
    36,                        \* bDescriptorType (CS_INTERFACE)
    1,                         \* bDescriptorSubtype (VC_HEADER)
    0, 1,                      \* bcdUVC 1.00
    77, 0,                     \* wTotalLength 77
    128, 141, 91, 0,           \* dwClockFrequency 6,000,000
    1,                         \* bInCollection 1
    1,                         \* baInterfaceNr[0] 1
    \* Input Terminal Descriptor (Camera)
    18,                        \* bLength
    36,                        \* bDescriptorType (CS_INTERFACE)
    2,                         \* bDescriptorSubtype (VC_INPUT_TERMINAL)
    1,                         \* bTerminalID
    1, 2,                      \* wTerminalType (Camera)
    0,                         \* bAssocTerminal
    0,                         \* iTerminal (String Index)
    0, 0,                      \* wObjectiveFocalLengthMin
    0, 0,                      \* wObjectiveFocalLengthMax
    0, 0,                      \* wOcularFocalLength
    3,                         \* bControlSize
    0, 0, 0,                   \* bmControls
    \* Processing Unit Descriptor
    13,                        \* bLength
    36,                        \* bDescriptorType (CS_INTERFACE)
    5,                         \* bDescriptorSubtype (VC_PROCESSING_UNIT)
    2,                         \* bUnitID
    1,                         \* bSourceID
    0, 64,                     \* wMaxMultiplier
    3,                         \* bControlSize
    0, 0, 0,                   \* bmControls
    0,                         \* iProcessing (String Index)
    0,                         \* bmVideoStandards
    \* Output Terminal Descriptor
    9,                         \* bLength
    36,                        \* bDescriptorType (CS_INTERFACE)
    3,                         \* bDescriptorSubtype (VC_OUTPUT_TERMINAL)
    3,                         \* bTerminalID
    1, 1,                      \* wTerminalType (USB Streaming)
    0,                         \* bAssocTerminal
    2,                         \* bSourceID
    0,                         \* iTerminal (String Index)
    \* Video Streaming Interface Descriptor (Alternate Setting 0)
    9,                         \* bLength
    4,                         \* bDescriptorType (Interface)
    1,                         \* bInterfaceNumber 1
    0,                         \* bAlternateSetting
    0,                         \* bNumEndpoints 0
    14,                        \* bInterfaceClass (Video)
    2,                         \* bInterfaceSubClass (Video Streaming)
    0,                         \* bInterfaceProtocol
    0,                         \* iInterface (String Index)
    \* Video Streaming Interface Descriptor (Alternate Setting 1)
    9,                         \* bLength
    4,                         \* bDescriptorType (Interface)
    1,                         \* bInterfaceNumber 1
    1,                         \* bAlternateSetting
    1,                         \* bNumEndpoints 1
    14,                        \* bInterfaceClass (Video)
    2,                         \* bInterfaceSubClass (Video Streaming)
    0,                         \* bInterfaceProtocol
    0,                         \* iInterface (String Index)
    \* Video Streaming Input Header Descriptor
    14,                        \* bLength
    36,                        \* bDescriptorType (CS_INTERFACE)
    1,                         \* bDescriptorSubtype (VS_INPUT_HEADER)
    1,                         \* bNumFormats 1
    75, 0,                     \* wTotalLength 75
    UVC_EP_VIDEO,              \* bEndpointAddress (EP 1 IN)
    0,                         \* bmInfo
    3,                         \* bTerminalLink
    1,                         \* bStillCaptureMethod
    0,                         \* bTriggerSupport
    0,                         \* bTriggerUsage
    1,                         \* bControlSize
    0,                         \* bmaControls[0]
    \* Video Format Descriptor (MJPEG)
    11,                        \* bLength
    36,                        \* bDescriptorType (CS_INTERFACE)
    6,                         \* bDescriptorSubtype (VS_FORMAT_MJPEG)
    1,                         \* bFormatIndex 1
    1,                         \* bNumFrameDescriptors 1
    1,                         \* bmFlags (Fixed frame rate)
    1,                         \* bDefaultFrameIndex 1
    0,                         \* bAspectRatioX
    0,                         \* bAspectRatioY
    0,                         \* bmInterlaceFlags
    0,                         \* bCopyProtect
    \* Video Frame Descriptor (640x480 @ 15fps)
    30,                        \* bLength
    36,                        \* bDescriptorType (CS_INTERFACE)
    7,                         \* bDescriptorSubtype (VS_FRAME_MJPEG)
    1,                         \* bFrameIndex 1
    1,                         \* bmCapabilities (Still image supported)
    UVC_WIDTH_VGA % 256, (UVC_WIDTH_VGA \div 256) % 256, \* wWidth 640
    UVC_HEIGHT_VGA % 256, (UVC_HEIGHT_VGA \div 256) % 256, \* wHeight 480
    0, 0, 148, 17,             \* dwMinBitRate 1,170,432 (15fps * 640 * 480 * 1.5bpp)
    0, 0, 148, 17,             \* dwMaxBitRate 1,170,432
    0, 72, 63, 0,              \* dwMaxVideoFrameBufferSize 4,147,200 (640 * 480 * 3 * 4.5)
    UVC_INTERVAL % 256, (UVC_INTERVAL \div 256) % 256,
    (UVC_INTERVAL \div 65536) % 256,
    (UVC_INTERVAL \div 16777216) % 256,
    1,                         \* bFrameIntervalType 1 (Discrete)
    UVC_INTERVAL % 256, (UVC_INTERVAL \div 256) % 256,
    (UVC_INTERVAL \div 65536) % 256,
    (UVC_INTERVAL \div 16777216) % 256,
    \* Video Frame Descriptor (320x240 @ 30fps)
    30,                        \* bLength
    36,                        \* bDescriptorType (CS_INTERFACE)
    7,                         \* bDescriptorSubtype (VS_FRAME_MJPEG)
    2,                         \* bFrameIndex 2
    1,                         \* bmCapabilities (Still image supported)
    UVC_WIDTH_QVGA % 256, (UVC_WIDTH_QVGA \div 256) % 256, \* wWidth 320
    UVC_HEIGHT_QVGA % 256, (UVC_HEIGHT_QVGA \div 256) % 256, \* wHeight 240
    0, 0, 37, 8,               \* dwMinBitRate 530,432 (30fps * 320 * 240 * 1.5bpp)
    0, 0, 37, 8,               \* dwMaxBitRate 530,432
    0, 32, 28, 0,              \* dwMaxVideoFrameBufferSize 1,843,200 (320 * 240 * 3 * 8)
    64, 66, 15, 0,             \* dwDefaultFrameInterval 333,333 (30fps)
    1,                         \* bFrameIntervalType 1 (Discrete)
    64, 66, 15, 0,             \* dwFrameInterval[0] 333,333 (30fps)
    \* Endpoint Descriptor (Video)
    7,                         \* bLength
    5,                         \* bDescriptorType (Endpoint)
    UVC_EP_VIDEO,              \* bEndpointAddress (EP 1 IN)
    2,                         \* bmAttributes (Bulk)
    UVC_PACKET_SIZE % 256, (UVC_PACKET_SIZE \div 256) % 256, \* wMaxPacketSize 512
    0                          \* bInterval 0
>>

\* String Descriptors
string0_descriptor == <<
    4,                         \* bLength
    3,                         \* bDescriptorType (String)
    9, 4                       \* wLANGID[0] (English - United States)
>>

string1_descriptor == <<
    34,                        \* bLength
    3,                         \* bDescriptorType (String)
    69, 0, 115, 0, 112, 0, 114, 0, 101, 0, 115, 0, 115, 0, 105,
    0, 102, 0, 32, 0, 83, 0, 121, 0, 115, 0, 116, 0, 101, 0, 109,
    0, 115, 0
>>

string2_descriptor == <<
    44,                        \* bLength
    3,                         \* bDescriptorType (String)
    88, 0, 73, 0, 65, 0, 79, 0, 32, 0, 69, 0, 83, 0, 80, 0, 51,
    0, 50, 0, 83, 0, 51, 0, 32, 0, 85, 0, 86, 0, 67, 0, 32, 0,
    87, 0, 101, 0, 98, 0, 99, 0, 97, 0, 109, 0
>>

string3_descriptor == <<
    14,                        \* bLength
    3,                         \* bDescriptorType (String)
    49, 0, 50, 0, 51, 0, 52, 0, 53, 0, 54, 0
>>

\* the array get_usb_descriptors() hands out, without its NULL end marker
usb_descriptors ==
    <<device_descriptor, config_descriptor, string0_descriptor,
      string1_descriptor, string2_descriptor, string3_descriptor>>

\* descriptor types and subtypes the tables use
DESC_CONFIGURATION == 2
DESC_INTERFACE == 4
CS_INTERFACE == 36
SUBTYPE_HEADER == 1
SUBTYPE_FORMAT_MJPEG == 6
SUBTYPE_FRAME_MJPEG == 7
SUBCLASS_VIDEO_CONTROL == 1
SUBCLASS_VIDEO_STREAMING == 2

\* members of the record that starts at offset off of table t
bLength(t, off) == t[off + 1]
bDescriptorType(t, off) == t[off + 2]
bDescriptorSubtype(t, off) == t[off + 3]
Word(t, at) == t[at + 1] + 256 * t[at + 2]

(***************************************************************************)
(* Enumeration reads a table from offset 0, record after record, each      *)
(* record as long as its bLength says.  The walk reads one byte per step   *)
(* and never reads past the end of the array.                              *)
(***************************************************************************)
\* the table under the walk
Table == usb_descriptors[dtable]

\* a table is requested
WalkOpen ==
    /\ dtable = 0
    /\ \E i \in 1..Len(usb_descriptors) : dtable' = i
    /\ drec' = 0
    /\ dpos' = 0
    /\ UNCHANGED <<boot, uvc_stream_state, ctlVars, taskVars, chan, wfail,
                   reportVars, armVars>>

\* the next byte of the record is read
WalkByte ==
    /\ dtable # 0
    /\ drec < Len(Table)
    /\ dpos < bLength(Table, drec)
    /\ drec + dpos < Len(Table)
    /\ dpos' = dpos + 1
    /\ UNCHANGED <<boot, uvc_stream_state, ctlVars, taskVars, chan, wfail,
                   reportVars, armVars, dtable, drec>>

\* the record is read, the walk moves to the record behind it
WalkRecord ==
    /\ dtable # 0
    /\ drec < Len(Table)
    /\ dpos > 0
    /\ dpos = bLength(Table, drec)
    /\ drec' = drec + bLength(Table, drec)
    /\ dpos' = 0
    /\ UNCHANGED <<boot, uvc_stream_state, ctlVars, taskVars, chan, wfail,
                   reportVars, armVars, dtable>>

WalkNext ==
    \/ WalkOpen
    \/ WalkByte
    \/ WalkRecord

WalkSpec == Init /\ [][WalkNext]_vars

(***************************************************************************)
(* follower_position_feedback.h.  unsigned long is 32 bits wide; a value   *)
(* is the pair <<high, low>> of its 16-bit halves, the arithmetic is that  *)
(* of the 32-bit unsigned type.                                            *)
(***************************************************************************)
POSITION_REPORT_FREQUENCY == 50
Half == 65536

Sub32_nowrap(a, b) ==
    IF a[1] < b[1] \/ (a[1] = b[1] /\ a[2] < b[2])
    THEN <<0, 0>>
    ELSE <<a[1] - b[1] - (IF a[2] < b[2] THEN 1 ELSE 0), (a[2] - b[2]) % Half>>

\* a - b of unsigned long
Sub32(a, b) ==
    <<(a[1] - b[1] - (IF a[2] < b[2] THEN 1 ELSE 0)) % Half,
      (a[2] - b[2]) % Half>>

\* a + b of unsigned long, and the carry out of it
Add32(a, b) ==
    <<(a[1] + b[1] + ((a[2] + b[2]) \div Half)) % Half, (a[2] + b[2]) % Half>>
Carry32(a, b) == (a[1] + b[1] + ((a[2] + b[2]) \div Half)) \div Half

\* a >= n for an unsigned long a and an int n below 65536
Ge32(a, n) == a[1] > 0 \/ a[2] >= n

\* modes of the arm (espNowMode); 3 is the follower
EspNowModes == 0..3

\* what the clock advances by between two looks at it: 1, 19, 20 ms and
\* all but 20 ms of a whole period of the counter
ClockSteps == {<<0, 1>>, <<0, 19>>, <<0, 20>>, <<Half - 1, Half - 20>>}

\* the mode is changed (by the ESP-NOW command handling of the arm)
SetMode ==
    /\ \E m \in EspNowModes : espNowMode' = m
    /\ espNowMode' # espNowMode
    /\ UNCHANGED <<boot, uvc_stream_state, ctlVars, taskVars, chan, wfail,
                   walkVars, armVars, lastPositionReportTime, now, since,
                   records, report, ticks>>

\* millis() advances
Tick ==
    /\ ticks < MaxTicks
    /\ ticks' = ticks + 1
    /\ \E d \in ClockSteps :
          /\ now' = Add32(now, d)
          /\ since' = <<since[1] + Carry32(since[2], d), Add32(since[2], d)>>
    /\ UNCHANGED <<boot, uvc_stream_state, ctlVars, taskVars, chan, wfail,
                   walkVars, armVars, espNowMode, lastPositionReportTime,
                   records, report>>

\* a call as the report of it: the mode and the clock it found, the time
\* gone since the last sent record, and whether it sent
Report(sent) ==
    [mode |-> espNowMode, time |-> now, last |-> lastPositionReportTime,
     elapsed |-> since, sent |-> sent]

\* posData[key] = value of a JsonDocument: the member is replaced when the
\* key is there, added behind the others when it is not
Put(doc, key, value) ==
    IF \E i \in 1..Len(doc) : doc[i][1] = key
    THEN [i \in 1..Len(doc) |->
             IF doc[i][1] = key THEN <<key, value>> ELSE doc[i]]
    ELSE Append(doc, <<key, value>>)

\* a value of a document: an unsigned long is its <<high, low>> pair, a
\* float reading r is <<-1, r>>
Float(r) == <<-1, r>>

\* the feedback readings the firmware keeps in radB .. lastZ
Readings ==
    {[radB |-> 1, radS |-> 2, radE |-> 3, radT |-> 4, radR |-> 5,
      radG |-> 6, lastX |-> 7, lastY |-> 8, lastZ |-> 9],
     [radB |-> 11, radS |-> 12, radE |-> 13, radT |-> 14, radR |-> 15,
      radG |-> 16, lastX |-> 17, lastY |-> 18, lastZ |-> 19]}

\* RoArmM3_getPosByServoFeedback() of the main loop: new readings
getPosByServoFeedback ==
    /\ \E r \in Readings : sensors' = r
    /\ sensors' # sensors
    /\ UNCHANGED <<boot, uvc_stream_state, ctlVars, taskVars, chan, wfail,
                   walkVars, reportVars, posData, identVars>>

\* lines 24-50: the document sendPositionData serializes to Serial
sendPositionData ==
    LET d1  == Put(<< >>, "t", now)
        d2  == Put(d1, "b", Float(sensors.radB))
        d3  == Put(d2, "s", Float(sensors.radS))
        d4  == Put(d3, "e", Float(sensors.radE))
        d5  == Put(d4, "t", Float(sensors.radT))
        d6  == Put(d5, "r", Float(sensors.radR))
        d7  == Put(d6, "g", Float(sensors.radG))
        d8  == Put(d7, "x", Float(sensors.lastX))
        d9  == Put(d8, "y", Float(sensors.lastY))
    IN  Put(d9, "z", Float(sensors.lastZ))

handlePositionReporting_anyMode ==
    /\ LET currentTime == now
       IN  IF Ge32(Sub32(currentTime, lastPositionReportTime),
                   1000 \div POSITION_REPORT_FREQUENCY)
           THEN /\ records' = records + 1
                /\ lastPositionReportTime' = currentTime
                /\ since' = <<0, <<0, 0>>>>
                /\ report' = Report(TRUE)
                /\ posData' = sendPositionData
           ELSE /\ report' = Report(FALSE)
                /\ UNCHANGED <<records, lastPositionReportTime, since, posData>>
    /\ UNCHANGED <<boot, uvc_stream_state, ctlVars, taskVars, chan, wfail,
                   walkVars, espNowMode, now, ticks, sensors, identVars>>

\* lines 59-71; sendPositionData writes one record to Serial
handlePositionReporting ==
    /\ IF espNowMode # 3
       THEN /\ report' = Report(FALSE)
            /\ UNCHANGED <<records, lastPositionReportTime, since, posData>>
       ELSE LET currentTime == now
            IN  IF Ge32(Sub32(currentTime, lastPositionReportTime),
                        1000 \div POSITION_REPORT_FREQUENCY)
                THEN /\ records' = records + 1
                     /\ lastPositionReportTime' = currentTime
                     /\ since' = <<0, <<0, 0>>>>
                     /\ report' = Report(TRUE)
                     /\ posData' = sendPositionData
                ELSE /\ report' = Report(FALSE)
                     /\ UNCHANGED <<records, lastPositionReportTime, since,
                                    posData>>
    /\ UNCHANGED <<boot, uvc_stream_state, ctlVars, taskVars, chan, wfail,
                   walkVars, espNowMode, now, ticks, sensors, identVars>>

FeedbackNext ==
    \/ SetMode
    \/ Tick
    \/ getPosByServoFeedback
    \/ handlePositionReporting

FeedbackSpec == Init /\ [][FeedbackNext]_vars

(***************************************************************************)
(* Arm identity: setArmIdentity, getArmIdentity and initArmIdentity as the *)
(* README of the feedback system gives them, and the command handler of    *)
(* uart_ctrl_with_identity.h that calls them.                              *)
(***************************************************************************)
\* identities a command sets
Identities == {"follower_left", "follower_right"}

\* preferences.putString("arm_id", identity); armIdentity = identity
setArmIdentity(identity) ==
    /\ preferences' = <<identity>>
    /\ armIdentity' = identity

\* preferences.getString("arm_id", "unknown")
getArmIdentity ==
    IF preferences = << >> THEN "unknown" ELSE preferences[1]

\* uart_ctrl_with_identity.h lines 16-21: {"T":400,"arm_id":identity}
jsonCmdReceiveHandler ==
    /\ \E identity \in Identities :
          /\ setArmIdentity(identity)
          /\ lastSet' = <<identity>>
    /\ jsonInfoHttp' = [status |-> "ok", arm_id |-> armIdentity']
    /\ UNCHANGED <<boot, uvc_stream_state, ctlVars, taskVars, chan, wfail,
                   walkVars, reportVars, sensors, posData>>

\* power cycle: RAM is back at its initialisers, flash is kept, setup runs
\* initArmIdentity (armIdentity = getArmIdentity())
PowerCycle ==
    /\ armIdentity' = getArmIdentity
    /\ jsonInfoHttp' = << >>
    /\ espNowMode' = 0
    /\ lastPositionReportTime' = <<0, 0>>
    /\ now' = <<0, 0>>
    /\ since' = <<0, <<0, 0>>>>
    /\ report' = << >>
    /\ UNCHANGED <<boot, uvc_stream_state, ctlVars, taskVars, chan, wfail,
                   walkVars, records, ticks, sensors, posData, preferences,
                   lastSet>>

ArmNext ==
    \/ FeedbackNext
    \/ jsonCmdReceiveHandler
    \/ PowerCycle

ArmSpec == Init /\ [][ArmNext]_vars

TypeOK ==
    /\ boot \in {"boot", "camera_failed", "alloc_failed", "sem_failed", "running"}
    /\ uvc_stream_state \in {UVC_STREAM_OFF, UVC_STREAM_READY, UVC_STREAM_ON}
    /\ Len(uvc_control) = SizeofControl
    /\ \A i \in 1..Len(uvc_control) : uvc_control[i] \in 0..255
    /\ handled \in BOOLEAN
    /\ prevProbe \in HostPayloads \cup {<< >>}
    /\ probed \in HostPayloads \cup {<< >>}
    /\ nreq \in 0..MaxRequests
    /\ rx = << >> \/ rx.data \in HostPayloads
    /\ wfail \in BOOLEAN
    /\ fb \in 0..Len(frames)
    /\ Len(returned) = Len(frames)
    /\ dtable \in 0..Len(usb_descriptors)
    /\ drec >= 0 /\ dpos >= 0
    /\ espNowMode \in EspNowModes
    /\ ticks \in 0..MaxTicks
    /\ records \in 0..(ticks + 1)


(***************************************************************************)
(* Properties                                                              *)
(***************************************************************************)
\* a step is the service of this control request
Serves(t, b, cs, idx, len, data) ==
    handle_uvc_control_request(t, b, cs, 0, idx, len, data)

\* the request is a class request to the streaming interface
ToStreaming(t, idx) ==
    (t \div 32) % 4 = 1 /\ idx % 256 = UVC_STREAMING_INTERFACE

\* C1: StreamState never goes from OFF to ON in one step: a step that ends
\* in ON starts in READY or in ON, so (the initial state being OFF) every
\* ON state has a READY state before it.
C1_NoDirectOffToOn ==
    [][uvc_stream_state' = UVC_STREAM_ON
          => uvc_stream_state \in {UVC_STREAM_READY, UVC_STREAM_ON}]_vars

C1_Witness == uvc_stream_state = UVC_STREAM_ON /\ pc = "check"

\* C2: a step that leaves OFF serves a SET_CUR on VS_COMMIT_CONTROL that is
\* a class request to the streaming interface with wLength = sizeof
\* (uvc_control), and it ends in READY; the service of a SET_CUR on
\* VS_PROBE_CONTROL, of a GET_* request and of a request reported as not
\* handled leaves StreamState as it was.
C2_LeavesOffOnlyByCommit ==
    [][ /\ (uvc_stream_state = UVC_STREAM_OFF /\ uvc_stream_state' # UVC_STREAM_OFF)
            => /\ uvc_stream_state' = UVC_STREAM_READY
               /\ \E t \in RequestTypes, idx \in RequestIndexes, data \in HostPayloads :
                     /\ ToStreaming(t, idx)
                     /\ Serves(t, UVC_SET_CUR, VS_COMMIT_CONTROL, idx, SizeofControl, data)
        /\ uvc_stream_state' # uvc_stream_state
            => \A t \in RequestTypes, b \in RequestCodes, cs \in Selectors,
                  idx \in RequestIndexes, len \in RequestLengths :
                  \A data \in DataStage(b, len) :
                     Serves(t, b, cs, idx, len, data)
                        => (b = UVC_SET_CUR /\ cs # VS_PROBE_CONTROL /\ handled') ]_vars

C2_Witness ==
    uvc_stream_state = UVC_STREAM_READY /\ handled /\ prevProbe = << >>


\* the writes of the streaming task for frame k, of one kind, in order
TaskWrites(k, kind) ==
    SelectSeq(chan, LAMBDA e : e.frame = k /\ e.kind = kind)

\* C3: from OFF, an accepted COMMIT SET_CUR that repeats the record of the
\* accepted PROBE SET_CUR served just before makes StreamState READY; with
\* the streaming task scheduled fairly READY leads to ON, and it does so at
\* the head of the task's next loop iteration (READY is only ever seen while
\* the task is at the loop head or idling towards it, and the loop head turns
\* READY into ON); once ON the task reaches esp_camera_fb_get, and a delivered
\* frame of 1..UVC_BUFFER_SIZE bytes leads to a payload write for that frame.
C3_ProbeCommitStartsStream ==
    /\ [][ /\ ( /\ uvc_stream_state = UVC_STREAM_OFF
                /\ prevProbe # << >>
                /\ \E t \in RequestTypes, idx \in RequestIndexes :
                      /\ ToStreaming(t, idx)
                      /\ Serves(t, UVC_SET_CUR, VS_COMMIT_CONTROL, idx,
                                SizeofControl, prevProbe) )
              => uvc_stream_state' = UVC_STREAM_READY
           /\ (pc = "top" /\ pc' # "top" /\ uvc_stream_state = UVC_STREAM_READY)
              => uvc_stream_state' = UVC_STREAM_ON ]_vars
    /\ [](uvc_stream_state = UVC_STREAM_READY => pc \in {"top", "check", "idle"})
    /\ (uvc_stream_state = UVC_STREAM_READY) ~> (uvc_stream_state = UVC_STREAM_ON)
    /\ (uvc_stream_state = UVC_STREAM_ON) ~> (pc = "acquire")
    /\ \A k \in 1..MaxFrames :
          ( /\ pc = "got" /\ fb = k
            /\ frames[k].len \in 1..UVC_BUFFER_SIZE )
          ~> (TaskWrites(k, "data") # << >>)

\* two requests were served: an accepted PROBE SET_CUR, then an accepted
\* COMMIT SET_CUR with the same record; the stream is ON and a payload of
\* the first frame is out
C3_Witness ==
    /\ uvc_stream_state = UVC_STREAM_ON
    /\ nreq = 2
    /\ probed # << >> /\ prevProbe = << >>
    /\ uvc_control = probed
    /\ TaskWrites(1, "data") # << >>


\* frame k has left the per-frame cycle of the task
Finished(k) ==
    \/ k < Len(frames)
    \/ k = Len(frames) /\ pc \notin {"got", "loop", "payload", "return"}

\* byte1 bit1 of a payload header
Eof(hdr) == (hdr.bytes[2] \div 2) % 2 = 1

EofCount(k) == Len(SelectSeq(TaskWrites(k, "hdr"), Eof))

\* the packets of frame k so far are laid out in order from offset 0, each
\* header in front of its payload, each payload non-empty and starting where
\* the one before ended, and no packet but the last one so far is EOF-marked
InOrder(k) ==
    LET H == TaskWrites(k, "hdr")
        D == TaskWrites(k, "data")
    IN  /\ Len(H) \in {Len(D), Len(D) + 1}
        /\ \A j \in 1..Len(H) :
              /\ H[j].off = (IF j = 1 THEN 0 ELSE D[j - 1].off + RunsLen(D[j - 1].data))
              /\ j < Len(H) => ~Eof(H[j])
        /\ \A j \in 1..Len(D) : D[j].off = H[j].off /\ RunsLen(D[j].data) > 0

\* the finished frame k went out whole: as many payloads as headers, the
\* last header (and only it) EOF-marked, the payloads ending at byte len - 1
Whole(k) ==
    LET H == TaskWrites(k, "hdr")
        D == TaskWrites(k, "data")
    IN  /\ Len(H) = Len(D) /\ Len(H) >= 1
        /\ Eof(H[Len(H)])
        /\ EofCount(k) = 1
        /\ D[Len(D)].off + RunsLen(D[Len(D)].data) = frames[k].len

\* nothing of frame k was written
Silent(k) == TaskWrites(k, "hdr") = << >> /\ TaskWrites(k, "data") = << >>

\* C4 as stated, refuted: every delivered frame, of any length, ends up with
\* exactly one EOF-marked packet, its packets in order covering 0..len-1.
C4_OneEofPerDeliveredFrame ==
    \A k \in 1..Len(frames) :
       /\ InOrder(k)
       /\ Finished(k) => (EofCount(k) = 1 /\ Whole(k))

\* C4 (amended): the packets of every frame are in offset order without gaps
\* or overlaps and only the last one is EOF-marked; a finished frame of
\* 1..UVC_BUFFER_SIZE bytes has exactly one EOF-marked packet, its last, and
\* its packets cover 0..len-1; a finished frame of length 0 or of more than
\* UVC_BUFFER_SIZE bytes has no packet at all, so no EOF-marked one.
C4_OneEofPerTransmittedFrame ==
    \A k \in 1..Len(frames) :
       /\ InOrder(k)
       /\ Finished(k) =>
             IF frames[k].len \in 1..UVC_BUFFER_SIZE THEN Whole(k) ELSE Silent(k)

C4_Witness ==
    /\ Len(frames) = 2
    /\ Finished(2)
    /\ frames[1].len = 2 * UVC_PACKET_SIZE + 1
    /\ Len(TaskWrites(1, "data")) = 3
    /\ frames[2].len = 0

RECURSIVE CatAll(_)
CatAll(writes) ==
    IF writes = << >> THEN << >> ELSE Cat(Head(writes).data, CatAll(Tail(writes)))

\* the payload bytes of the packets of frame k, concatenated in emission order
Payload(k) == CatAll(TaskWrites(k, "data"))

\* C5: when the packetization of a frame that fits the buffer is complete
\* (the task is about to return the frame), the concatenated payload bytes of
\* its packets are the bytes of the frame, byte for byte.
C5_RoundTrip ==
    (pc = "return" /\ frames[fb].len <= UVC_BUFFER_SIZE)
       => LET sent == Payload(fb)
          IN  /\ RunsLen(sent) = frames[fb].len
              /\ \A i \in 0..(frames[fb].len - 1) :
                    ByteAt(sent, i) = FrameByte(frames[fb].seed, i)

\* the second frame is shorter than the first: the buffer still holds the
\* tail of the first one
C5_Witness ==
    /\ pc = "return" /\ fb = 2
    /\ frames[1].len = 2 * UVC_PACKET_SIZE + 1
    /\ frames[2].len = UVC_PACKET_SIZE
    /\ RunsLen(uvc_buffer) = 2 * UVC_PACKET_SIZE + 1

\* C6: a frame longer than UVC_BUFFER_SIZE causes no write (no header, no
\* payload), is returned to the camera exactly once, and while the task
\* holds it the streaming buffer is not written.
C6_OversizeDropped ==
    /\ [](\A k \in 1..Len(frames) :
             frames[k].len > UVC_BUFFER_SIZE
                => /\ Silent(k)
                   /\ returned[k] = (IF Finished(k) THEN 1 ELSE 0))
    /\ [][(pc \in {"got", "return"} /\ frames[fb].len > UVC_BUFFER_SIZE)
             => uvc_buffer' = uvc_buffer]_vars

C6_Witness ==
    /\ Len(frames) = 2
    /\ frames[1].len = UVC_PACKET_SIZE
    /\ frames[2].len > UVC_BUFFER_SIZE
    /\ returned[2] = 1
    /\ RunsLen(uvc_buffer) = UVC_PACKET_SIZE

\* frames the camera has handed out and not got back
Held == {k \in 1..Len(frames) : returned[k] = 0}

\* C7: every delivered frame is returned exactly once, before the next
\* esp_camera_fb_get and on both paths of the cycle; at most one frame is
\* out at any time; a return is always of the frame just acquired; after a
\* failed acquire (fb = NULL) nothing is out and nothing is returned.
C7_ReleasedExactlyOnce ==
    /\ [](/\ \A k \in 1..Len(frames) :
                returned[k] = (IF Finished(k) THEN 1 ELSE 0)
          /\ Cardinality(Held) <= 1
          /\ pc \in {"acquire", "backoff"} => Held = {})
    /\ [][/\ \A k \in 1..Len(frames) :
                returned'[k] # returned[k]
                   => (k = fb /\ k = Len(frames) /\ pc = "return")
          /\ pc = "backoff" => returned' = returned]_vars

C7_Witness ==
    /\ Len(frames) = 2
    /\ returned = <<1, 1>>
    /\ frames[1].len > UVC_BUFFER_SIZE
    /\ frames[2].len = UVC_PACKET_SIZE
    /\ pc = "backoff"


\* C8 as stated, refuted: when a payload is written, its two header bytes
\* and its payload bytes together do not exceed the
\* dwMaxPayloadTransferSize that uvc_control holds at that moment.
C8_PacketWithinNegotiatedSize ==
    [][(pc = "payload" /\ pc' = "loop")
          => LET H == TaskWrites(fb, "hdr")
             IN  Len(H[Len(H)].bytes) + RunsLen(chan'[Len(chan')].data)
                    <= LoadField(uvc_control, "dwMaxPayloadTransferSize")]_vars

\* C9: a GET_CUR on VS_PROBE_CONTROL (class request, streaming interface,
\* wLength = sizeof(uvc_control)) served right after an accepted SET_CUR(P) on
\* VS_PROBE_CONTROL is handled and sends one response whose members all
\* equal those of P.
C9_GetCurAfterProbe ==
    [][( /\ prevProbe # << >>
         /\ \E t \in RequestTypes, idx \in RequestIndexes :
               /\ ToStreaming(t, idx)
               /\ Serves(t, UVC_GET_CUR, VS_PROBE_CONTROL, idx, SizeofControl, << >>) )
          => /\ handled'
             /\ Len(ctl') = 1
             /\ ctl'[1].kind = "resp"
             /\ \E P \in HostRecords :
                   /\ Fields(prevProbe) = P
                   /\ Fields(ctl'[1].bytes) = P ]_vars

\* a SET_CUR on VS_PROBE_CONTROL with a record other than the boot one, then
\* a GET request that was answered with that record
C9_Witness ==
    /\ nreq = 2
    /\ probed # << >> /\ probed # init_uvc_control
    /\ prevProbe = << >>
    /\ handled
    /\ Len(ctl) = 1
    /\ ctl[1].kind = "resp" /\ ctl[1].bytes = probed

\* C10 as stated, refuted: a GET_CUR, GET_MIN, GET_MAX or GET_DEF on
\* VS_PROBE_CONTROL or VS_COMMIT_CONTROL whose wLength is not
\* sizeof(uvc_control) sends nothing and is reported as not handled.
C10_GetWrongLengthRejected ==
    [][\A t \in RequestTypes, idx \in RequestIndexes,
          b \in {UVC_GET_CUR, UVC_GET_MIN, UVC_GET_MAX, UVC_GET_DEF},
          cs \in {VS_PROBE_CONTROL, VS_COMMIT_CONTROL},
          len \in RequestLengths \ {SizeofControl} :
          (ToStreaming(t, idx) /\ Serves(t, b, cs, idx, len, << >>))
             => (~handled' /\ ctl' = << >>)]_vars

\* a request the handler's switch has no case for, or a SET_CUR whose data
\* stage is not one record long
Malformed(b, cs, len) ==
    \/ b = UVC_SET_CUR /\ len # SizeofControl
    \/ cs \notin {VS_PROBE_CONTROL, VS_COMMIT_CONTROL}
    \/ b \notin {UVC_SET_CUR, UVC_GET_CUR, UVC_GET_MIN, UVC_GET_MAX, UVC_GET_DEF}

\* C11: the service of a malformed request (SET_CUR with wLength other than
\* sizeof(uvc_control), unknown selector, unknown request code) returns
\* handled = false and leaves uvc_control and StreamState as they were;
\* stated from the other side: a handler step that returns handled = true,
\* or changes uvc_control or StreamState, serves no malformed request.
C11_MalformedRejected ==
    [][( /\ nreq' # nreq
         /\ \/ handled'
            \/ uvc_control' # uvc_control
            \/ uvc_stream_state' # uvc_stream_state )
          => \A t \in RequestTypes, b \in RequestCodes, cs \in Selectors,
                idx \in RequestIndexes, len \in RequestLengths :
                Malformed(b, cs, len)
                   => \A data \in DataStage(b, len) :
                         ~Serves(t, b, cs, idx, len, data)]_vars

\* a request was rejected after a COMMIT of a record other than the boot
\* one: the record and READY are still there
C11_Witness ==
    /\ nreq = 2
    /\ ~handled
    /\ uvc_stream_state = UVC_STREAM_READY
    /\ uvc_control \in HostPayloads /\ uvc_control # init_uvc_control

\* a request that is none of the handler's business: not a class request,
\* not for the streaming interface, not one of the two selectors, or one of
\* GET_RES, GET_LEN, GET_INFO
NotOurs(t, b, cs, idx) ==
    \/ (t \div 32) % 4 # 1
    \/ idx % 256 # UVC_STREAMING_INTERFACE
    \/ cs \notin {VS_PROBE_CONTROL, VS_COMMIT_CONTROL}
    \/ b \in {UVC_GET_RES, UVC_GET_LEN, UVC_GET_INFO}

\* C12: the service of such a request returns handled = false with no
\* USB.sendControl and no USB.recvControl; stated from the other side: a
\* handler step that returns handled = true or makes a transfer serves none
\* of these requests.
C12_ForeignRequestsUntouched ==
    [][(nreq' # nreq /\ (handled' \/ ctl' # << >>))
          => \A t \in RequestTypes, b \in RequestCodes, cs \in Selectors,
                idx \in RequestIndexes, len \in RequestLengths :
                NotOurs(t, b, cs, idx)
                   => \A data \in DataStage(b, len) :
                         ~Serves(t, b, cs, idx, len, data)]_vars

\* the first request is rejected: nothing was sent, nothing read, the boot
\* record is in place
C12_Witness ==
    /\ nreq = 1
    /\ ~handled
    /\ ctl = << >>
    /\ uvc_control = init_uvc_control
    /\ uvc_stream_state = UVC_STREAM_OFF

\* the last request read a data stage while uvc_task was packetizing frame k
ReadDuring(k) ==
    ctl # << >> /\ ctl[1].kind = "recv" /\ ctl[1].frame = k

\* C13: a request served while StreamState is READY or ON leaves StreamState,
\* the task's variables and the task's writes as they were, and when it is
\* an accepted SET_CUR on VS_COMMIT_CONTROL, uvc_control holds its record
\* afterwards (so any number of successive COMMITs while ON leave ON); a
\* frame whose packetization was under way when the data stage was read
\* still goes out whole, with exactly one EOF-marked packet, its last.
C13_CommitWhileStreaming ==
    /\ [][(nreq' # nreq /\ uvc_stream_state # UVC_STREAM_OFF)
             => /\ uvc_stream_state' = uvc_stream_state
                /\ UNCHANGED <<taskVars, chan>>
                /\ handled'
                     => \A t \in RequestTypes, idx \in RequestIndexes,
                           data \in HostPayloads :
                           ( /\ ToStreaming(t, idx)
                             /\ Serves(t, UVC_SET_CUR, VS_COMMIT_CONTROL, idx,
                                       SizeofControl, data) )
                              => uvc_control' = data]_vars
    /\ [](\A k \in 1..Len(frames) :
             ReadDuring(k)
                => /\ uvc_stream_state = UVC_STREAM_ON
                   /\ InOrder(k)
                   /\ Finished(k) => (Whole(k) /\ EofCount(k) = 1))

\* the stream was started by a COMMIT of the boot record; while the second
\* packet of a three-packet frame was due, a COMMIT of another record was
\* served (no PROBE ever was); the frame went out whole
C13_Witness ==
    /\ nreq = 2
    /\ probed = << >>
    /\ ReadDuring(1)
    /\ ctl[1].state = UVC_STREAM_ON
    /\ uvc_control # init_uvc_control /\ uvc_control = ctl[1].bytes
    /\ uvc_stream_state = UVC_STREAM_ON
    /\ frames[1].len = 2 * UVC_PACKET_SIZE + 1
    /\ Finished(1) /\ Whole(1)

\* the host selects alternate setting 0 of the streaming interface: the
\* standard request SET_INTERFACE (bmRequestType 0x01, bRequest 0x0B,
\* wValue 0, wIndex = the interface, no data stage)
ServesStreamStop ==
    Serves(1, 11, 0, UVC_STREAMING_INTERFACE, 0, << >>)

\* C14 as stated, refuted: the service of a stream stop while StreamState is
\* READY or ON leaves StreamState OFF.
C14_StopForcesOff ==
    [][(uvc_stream_state # UVC_STREAM_OFF /\ ServesStreamStop)
          => uvc_stream_state' = UVC_STREAM_OFF]_vars

\* C16 as stated, refuted: a step from OFF to READY finds the record of an
\* accepted SET_CUR on VS_PROBE_CONTROL and stores an equal one.
C16_CommitNeedsEqualProbe ==
    [][(uvc_stream_state = UVC_STREAM_OFF /\ uvc_stream_state' = UVC_STREAM_READY)
          => (probed # << >> /\ uvc_control' = probed)]_vars

\* C17 as stated, refuted: when a request changes uvc_control, every member
\* of the new record lies between the member GET_MIN reports and the member
\* GET_MAX reports when the request arrives.
C17_StoredWithinReportedBounds ==
    [][(nreq' # nreq /\ uvc_control' # uvc_control)
          => \A name \in FieldNames :
                /\ LoadField(GetResponse(UVC_GET_MIN, uvc_control), name)
                      <= LoadField(uvc_control', name)
                /\ LoadField(uvc_control', name)
                      <= LoadField(GetResponse(UVC_GET_MAX, uvc_control), name)]_vars

\* C18 as stated, refuted: the response to a GET_DEF on VS_PROBE_CONTROL or
\* VS_COMMIT_CONTROL is the record init_uvc_control sets, whatever
\* uvc_control holds.
C18_GetDefIsBootRecord ==
    [][\A t \in RequestTypes, idx \in RequestIndexes,
          cs \in {VS_PROBE_CONTROL, VS_COMMIT_CONTROL} :
          (ToStreaming(t, idx) /\ Serves(t, UVC_GET_DEF, cs, idx, SizeofControl, << >>))
             => (Len(ctl') = 1 /\ ctl'[1].bytes = init_uvc_control)]_vars

\* C19: a failed esp_camera_fb_get (fb = NULL) takes the task to its
\* back-off and from there to the loop head, with StreamState, the frames
\* returned and the writes as they were; once ON, StreamState stays ON; with
\* the task scheduled fairly and a camera that never has a frame, every
\* back-off leads to another esp_camera_fb_get, without end.
C19_RetriesWhileOn ==
    /\ [][ /\ (pc = "acquire" /\ pc' = "backoff")
               => /\ fb' = 0
                  /\ UNCHANGED <<uvc_stream_state, returned, chan, frames>>
           /\ (pc = "backoff" /\ pc' # "backoff")
               => /\ pc' = "top"
                  /\ UNCHANGED <<uvc_stream_state, returned, chan, frames>>
           /\ uvc_stream_state = UVC_STREAM_ON
               => uvc_stream_state' = UVC_STREAM_ON ]_vars
    /\ [](pc \in {"acquire", "backoff"} => uvc_stream_state = UVC_STREAM_ON)
    /\ (pc = "backoff") ~> (pc = "acquire")
    /\ (uvc_stream_state = UVC_STREAM_ON) ~> (pc = "backoff")

\* the host is done, the task is backing off once more: still ON, nothing
\* written, nothing acquired
C19_Witness ==
    /\ pc = "backoff"
    /\ uvc_stream_state = UVC_STREAM_ON
    /\ nreq = MaxRequests
    /\ fb = 0 /\ frames = << >> /\ chan = << >>

\* uvc_control holds one whole record: the boot one or one a host sent
CompleteRecord == uvc_control = init_uvc_control \/ uvc_control \in HostPayloads

\* C15 as stated, refuted: whenever uvc_task reads uvc_stream_state and finds
\* READY (line 321) or ON (line 328), uvc_control holds one whole record.
C15_NeverObservedHalfWritten ==
    [][( \/ (pc = "top" /\ pc' = "check" /\ uvc_stream_state = UVC_STREAM_READY)
         \/ (pc = "check" /\ pc' = "acquire" /\ uvc_stream_state = UVC_STREAM_ON) )
          => CompleteRecord]_vars

\* C20: a write of the task that fails leaves StreamState as it was and
\* takes the task where a write that succeeds takes it; once a write has
\* failed StreamState is (still) ON, every delivered frame is returned
\* exactly once, when its cycle ends, and the task always has a next step.
C20_WriteFailureNotFatal ==
    /\ [][(wfail' /\ ~wfail)
             => /\ uvc_stream_state' = uvc_stream_state
                /\ returned' = returned
                /\ pc' = (IF pc = "loop" THEN "payload" ELSE "loop")
                /\ pc = "payload"
                     => bytes_remaining' = bytes_remaining - PacketSize(bytes_remaining)]_vars
    /\ [](wfail
            => /\ uvc_stream_state = UVC_STREAM_ON
               /\ \A k \in 1..Len(frames) :
                     returned[k] = (IF Finished(k) THEN 1 ELSE 0)
               /\ ENABLED lossy_task)

\* writes of the first frame failed; the frame is back with the camera, the
\* task has counted it and is at esp_camera_fb_get again, still ON
C20_Witness ==
    /\ wfail
    /\ Len(frames) = 1 /\ frames[1].len = 2 * UVC_PACKET_SIZE + 1
    /\ returned = <<1>>
    /\ frame_count = 1
    /\ pc = "acquire"
    /\ uvc_stream_state = UVC_STREAM_ON

\* C21: within a frame the task does not go on to the next write before the
\* transport accepted the current one: a header write that fails leaves the
\* task at that header, a payload write that fails leaves the cursors
\* (data_ptr, bytes_sent, bytes_remaining) where they were, so no byte range
\* of the frame is passed over.
C21_NextPacketWaitsForAcceptance ==
    [][(wfail' /\ ~wfail)
          => /\ pc = "loop" => pc' = "loop"
             /\ pc = "payload"
                  => /\ data_ptr' = data_ptr
                     /\ bytes_sent' = bytes_sent
                     /\ bytes_remaining' = bytes_remaining]_vars

\* C22: every header and every payload the task writes goes to the video
\* endpoint (endpoint 1 IN, UVC_EP_VIDEO), none to the control endpoint; the
\* control endpoint carries only what the handler transfers.
C22_TaskWritesToVideoEndpoint ==
    /\ \A i \in 1..Len(chan) :
          chan[i].src = "task" /\ chan[i].ep = EP_IN
                               /\ chan[i].ep = UVC_EP_VIDEO % 128
    /\ \A i \in 1..Len(ctl) :
          ctl[i].src = "handler" /\ ctl[i].ep = EP_CTRL

\* the task has written part of a frame and the rest is due: a header whose
\* payload is not written yet, or a packet with further packets to follow
MidFrame ==
    \/ pc = "payload"
    \/ pc = "loop" /\ bytes_sent > 0 /\ bytes_remaining > 0

\* C23: in every interleaving of handler and task, the bytes on the channel
\* the task streams on are the task's packets only: the packets of a frame
\* precede those of the next frame, and no response of the handler (to a
\* GET request) is written to that channel between a header and its payload
\* or between two packets of one frame.
C23_StreamCarriesOnlyPackets ==
    /\ [][(nreq' # nreq /\ Len(ctl') = 1 /\ ctl'[1].kind = "resp"
             /\ ctl'[1].ep = TaskWrite("hdr", 0, << >>, << >>).ep)
            => ~MidFrame]_vars
    /\ [](\A i \in 1..Len(chan) : \A j \in i..Len(chan) :
             chan[i].frame <= chan[j].frame)

\* C24: the task counts the frames it drops: its counter (frame_count is the
\* only counter uvc_task keeps) goes up by one for each acquired frame that
\* is longer than the buffer, and does not go up for a frame that is
\* transmitted nor for an acquire that fails, so that it is the number of
\* oversize frames handled so far.
C24_DropsCounted ==
    frame_count = Cardinality({k \in 1..Len(frames) :
                                  /\ returned[k] > 0
                                  /\ frames[k].len > UVC_BUFFER_SIZE})

\* the frame-identifier flag of a payload header: bit 1 of byte 0
FrameId(header) == (header[1] \div 2) % 2

\* C25: the frame-identifier flag in byte 0 of the payload header is the
\* same in all packets of a frame and the opposite in all packets of the
\* next transmitted frame, and every header is 2 bytes long: two headers
\* that follow each other carry the same flag exactly when they belong to
\* the same frame.
C25_FrameIdToggles ==
    LET hdrs == SelectSeq(chan, LAMBDA e : e.kind = "hdr")
    IN  /\ \A i \in 1..Len(hdrs) : Len(hdrs[i].bytes) = 2
        /\ \A i \in 1..(Len(hdrs) - 1) :
              (hdrs[i].frame = hdrs[i + 1].frame)
                 <=> (FrameId(hdrs[i].bytes) = FrameId(hdrs[i + 1].bytes))

\* offsets of the records of table t from offset off on, each found behind
\* the one before it by its bLength
RECURSIVE RecordOffsets(_, _)
RecordOffsets(t, off) ==
    IF off >= Len(t) \/ bLength(t, off) = 0
    THEN << >>
    ELSE <<off>> \o RecordOffsets(t, off + bLength(t, off))

\* offsets of the class-specific interface records that follow each other
\* from offset off on
RECURSIVE ClassSpecificRun(_, _)
ClassSpecificRun(t, off) ==
    IF off + 2 <= Len(t) /\ bLength(t, off) > 0
          /\ bDescriptorType(t, off) = CS_INTERFACE
    THEN <<off>> \o ClassSpecificRun(t, off + bLength(t, off))
    ELSE << >>

RECURSIVE SumLengths(_, _)
SumLengths(t, offs) ==
    IF offs = << >> THEN 0
    ELSE bLength(t, Head(offs)) + SumLengths(t, Tail(offs))

\* bInterfaceSubClass of the interface descriptor the record at off follows,
\* 0 when there is none
SubClassAt(t, off) ==
    LET ifs == SelectSeq(RecordOffsets(t, 0),
                         LAMBDA o : o < off /\ bDescriptorType(t, o) = DESC_INTERFACE)
    IN  IF ifs = << >> THEN 0 ELSE t[ifs[Len(ifs)] + 7]

\* the walk stands on a class-specific record of this subtype of an interface
\* of this subclass, in the configuration descriptor
WalkAt(subclass, subtype) ==
    /\ dtable # 0
    /\ Table = config_descriptor
    /\ drec + 3 <= Len(Table)
    /\ bDescriptorType(Table, drec) = CS_INTERFACE
    /\ bDescriptorSubtype(Table, drec) = subtype
    /\ SubClassAt(Table, drec) = subclass

\* C26: every total-length member of the configuration descriptor is the
\* byte length of what it describes: wTotalLength of the configuration is
\* the size of config_descriptor, wTotalLength of the video-control header
\* the summed size of the class-specific video-control records (header,
\* input terminal, processing unit, output terminal), wTotalLength of the
\* video-streaming input header the summed size of input header, format and
\* frame records.
C26_TotalLengthsMatch ==
    /\ (dtable # 0 /\ Table = config_descriptor /\ drec = 0)
          => Word(Table, 2) = Len(Table)
    /\ WalkAt(SUBCLASS_VIDEO_CONTROL, SUBTYPE_HEADER)
          => Word(Table, drec + 5)
                = SumLengths(Table, ClassSpecificRun(Table, drec))
    /\ WalkAt(SUBCLASS_VIDEO_STREAMING, SUBTYPE_HEADER)
          => Word(Table, drec + 4)
                = SumLengths(Table, ClassSpecificRun(Table, drec))

\* C27: in every table (device, configuration, string 0 to 3) the walk by
\* bLength ends exactly at the end of the table: every record the walk
\* comes to lies within the table with all the bytes its bLength declares,
\* so the declared lengths add up to the size of the table.
C27_RecordsFillTable ==
    dtable # 0
       => /\ drec <= Len(Table)
          /\ drec < Len(Table)
                => /\ bLength(Table, drec) >= 2
                   /\ drec + bLength(Table, drec) <= Len(Table)
          /\ drec = Len(Table)
                => SumLengths(Table, RecordOffsets(Table, 0)) = Len(Table)

\* C28: the MJPEG format record accounts for its frame records:
\* bNumFrameDescriptors is the number of frame records behind it, their
\* bFrameIndex are 1..bNumFrameDescriptors, each once, bDefaultFrameIndex is
\* one of them; bNumFormats of the input header is the number of format
\* records.
C28_FramesAccountedFor ==
    /\ WalkAt(SUBCLASS_VIDEO_STREAMING, SUBTYPE_FORMAT_MJPEG)
          => LET frs == SelectSeq(
                           ClassSpecificRun(Table, drec + bLength(Table, drec)),
                           LAMBDA o : bDescriptorSubtype(Table, o) = SUBTYPE_FRAME_MJPEG)
                 ixs == {Table[frs[i] + 4] : i \in 1..Len(frs)}
             IN  /\ Table[drec + 5] = Len(frs)
                 /\ ixs = 1..Table[drec + 5]
                 /\ Cardinality(ixs) = Len(frs)
                 /\ Table[drec + 7] \in ixs
    /\ WalkAt(SUBCLASS_VIDEO_STREAMING, SUBTYPE_HEADER)
          => Table[drec + 4]
                = Len(SelectSeq(ClassSpecificRun(Table, drec),
                         LAMBDA o : bDescriptorSubtype(Table, o) = SUBTYPE_FORMAT_MJPEG))

\* the time gone, as <<whole periods of the counter, rest>>, is at least n ms
ElapsedAtLeast(e, n) == e[1] > 0 \/ Ge32(e[2], n)

\* C29: handlePositionReporting sends a record only in follower mode
\* (espNowMode = 3): in any other mode no step sends a record or changes
\* lastPositionReportTime, and a call made in another mode has not sent.
C29_ReportsOnlyAsFollower ==
    /\ [][espNowMode # 3
            => /\ records' = records
               /\ lastPositionReportTime' = lastPositionReportTime]_vars
    /\ []((report # << >> /\ report.mode # 3) => ~report.sent)

\* a call in another mode, a report being due, that did not send
C29_Witness ==
    /\ report # << >>
    /\ report.mode \in {0, 1, 2}
    /\ ElapsedAtLeast(report.elapsed, 1000 \div POSITION_REPORT_FREQUENCY)
    /\ ~report.sent
    /\ records = 0
    /\ lastPositionReportTime = <<0, 0>>

\* C30 as stated: in follower mode a call sends a record if and only if at
\* least 1000/50 = 20 ms have gone since the last sent record, also when the
\* millis() counter wrapped in between.
C30_SendsIffElapsed ==
    (report # << >> /\ report.mode = 3)
       => (report.sent
              <=> ElapsedAtLeast(report.elapsed,
                                 1000 \div POSITION_REPORT_FREQUENCY))

\* C30, amended: in follower mode a call sends if and only if at least 20 ms
\* have gone since the last sent record, provided less than one whole period
\* of the 32-bit counter (2^32 ms) has gone since then; in every case a call
\* sends if and only if the time gone, counted modulo 2^32, is at least
\* 20 ms, so two consecutive records are never less than 20 ms apart, also
\* when the counter wrapped between them.
C30_SendsIffElapsedModulo ==
    (report # << >> /\ report.mode = 3)
       => /\ report.sent
               <=> Ge32(report.elapsed[2], 1000 \div POSITION_REPORT_FREQUENCY)
          /\ report.elapsed[1] = 0
               => (report.sent
                     <=> ElapsedAtLeast(report.elapsed,
                                        1000 \div POSITION_REPORT_FREQUENCY))
          /\ report.sent
               => ElapsedAtLeast(report.elapsed,
                                 1000 \div POSITION_REPORT_FREQUENCY)

\* the second record, sent 20 ms after the first with the counter wrapped
\* in between
C30_Witness ==
    /\ report # << >>
    /\ report.mode = 3
    /\ report.sent
    /\ records = 2
    /\ report.last = <<Half - 1, Half - 20>>
    /\ report.time = <<0, 0>>
    /\ report.elapsed = <<0, <<0, 20>>>>

\* the member of a document under this key is this value
Holds(doc, key, value) ==
    \E i \in 1..Len(doc) : doc[i][1] = key /\ doc[i][2] = value

\* C31: every record sendPositionData emits carries the timestamp (the
\* millis() value read while the record is built), the six joint angles and
\* the end-effector x, y, z, each to be had from the record as a value of
\* its own: base, shoulder, elbow, roll, gripper, x, y, z under their keys
\* b, s, e, r, g, x, y, z, timestamp and wrist tilt under two further keys
\* that differ from each other.
C31_RecordCarriesAllValues ==
    [][records' # records
          => /\ Holds(posData', "b", Float(sensors.radB))
             /\ Holds(posData', "s", Float(sensors.radS))
             /\ Holds(posData', "e", Float(sensors.radE))
             /\ Holds(posData', "r", Float(sensors.radR))
             /\ Holds(posData', "g", Float(sensors.radG))
             /\ Holds(posData', "x", Float(sensors.lastX))
             /\ Holds(posData', "y", Float(sensors.lastY))
             /\ Holds(posData', "z", Float(sensors.lastZ))
             /\ \E i, j \in 1..Len(posData') :
                   /\ i # j
                   /\ posData'[i][1] # posData'[j][1]
                   /\ posData'[i][2] = now
                   /\ posData'[j][2] = Float(sensors.radT)]_vars

\* the identity the arm was given last, "unknown" when it never was given one
GivenIdentity == IF lastSet = << >> THEN "unknown" ELSE lastSet[1]

C33_PacketCount ==
    LET size == LoadField(init_uvc_control, "dwMaxPayloadTransferSize")
    IN  \A k \in 1..Len(frames) :
           ( /\ Finished(k)
             /\ frames[k].len \in 1..UVC_BUFFER_SIZE
             /\ LoadField(uvc_control, "dwMaxPayloadTransferSize") = size )
           => \E p \in {size - 2, size - 4} :
                 LET H == TaskWrites(k, "hdr")
                     D == TaskWrites(k, "data")
                 IN  /\ Len(D) = (frames[k].len + p - 1) \div p
                     /\ Len(H) = Len(D)
                     /\ \A j \in 1..Len(D) :
                           /\ j < Len(D) => RunsLen(D[j].data) = p
                           /\ j = Len(D) => RunsLen(D[j].data) \in 1..p
                           /\ Eof(H[j]) <=> j = Len(D)

\* C34: whenever the streaming task is about to acquire a frame, holds one,
\* or is between the acquisition and the end of the cycle (copying, writing
\* packets, returning, backing off), StreamState is ON: while StreamState is
\* OFF or READY no frame is out and the task is at the loop head, at the
\* test or idling, where it writes nothing; so no frame is held in two
\* states of different StreamState.
C34_FrameOnlyWhileOn ==
    /\ (Held # {} \/ fb # 0
          \/ pc \in {"acquire", "got", "loop", "payload", "return",
                     "backoff", "yield"})
          => uvc_stream_state = UVC_STREAM_ON
    /\ uvc_stream_state # UVC_STREAM_ON
          => /\ pc \in {"none", "top", "check", "idle"}
             /\ chan = << >>
             /\ frames = << >>

\* both control requests were served while the task was at work; it holds
\* the second frame, the header of a packet out and the payload due
C34_Witness ==
    /\ uvc_stream_state = UVC_STREAM_ON
    /\ nreq = MaxRequests
    /\ pc = "payload"
    /\ fb = 2
    /\ Held = {2}
    /\ Len(ctl) = 1 /\ ctl[1].frame = 2

\* the step serves an accepted SET_CUR: the handler has read a data stage
AcceptedSetCur ==
    nreq' = nreq + 1 /\ handled' /\ Len(ctl') = 1 /\ ctl'[1].kind = "recv"

\* C35: a successful setup ends with StreamState OFF and the default
\* record in ProbeCommitParameters (bFormatIndex 1, bFrameIndex 1,
\* dwFrameInterval 666666, dwMaxVideoFrameSize 614400,
\* dwMaxPayloadTransferSize 512, every other member 0); afterwards a step
\* that does not serve an accepted SET_CUR leaves the record as it is and
\* leaves StreamState OFF when it is OFF, so both hold until the first
\* accepted SET_CUR; no step of the streaming task changes the record.
C35_DefaultsUntilSetCur ==
    [][ /\ (boot = "boot" /\ boot' = "running")
            => /\ uvc_stream_state' = UVC_STREAM_OFF
               /\ Fields(uvc_control') =
                     [name \in FieldNames |->
                        CASE name = "bFormatIndex" -> 1
                          [] name = "bFrameIndex" -> 1
                          [] name = "dwFrameInterval" -> 666666
                          [] name = "dwMaxVideoFrameSize" -> 614400
                          [] name = "dwMaxPayloadTransferSize" -> 512
                          [] OTHER -> 0]
        /\ (boot = "running" /\ ~AcceptedSetCur)
            => /\ uvc_control' = uvc_control
               /\ uvc_stream_state = UVC_STREAM_OFF
                     => uvc_stream_state' = UVC_STREAM_OFF
        /\ (boot = "running" /\ pc' # pc) => uvc_control' = uvc_control ]_vars

\* setup succeeded, the task runs and idles, a GET request was the last of
\* the requests served and no SET_CUR has been accepted: OFF, defaults
C35_Witness ==
    /\ boot = "running"
    /\ nreq = MaxRequests
    /\ handled /\ Len(ctl) = 1 /\ ctl[1].kind = "resp"
    /\ probed = << >>
    /\ pc = "idle"
    /\ uvc_stream_state = UVC_STREAM_OFF
    /\ LoadField(uvc_control, "dwFrameInterval") = 666666
    /\ LoadField(uvc_control, "dwMaxVideoFrameSize") = 614400

\* C36: StreamState changes only from OFF to READY, in a step of the
\* control handler, and from READY to ON, in the step of the streaming task
\* at its loop head; a step from ON ends in ON, whatever request is served,
\* whether the camera has a frame or not and whatever its size, so the edge
\* READY -> ON is taken at most once.
C36_StreamStateMonotone ==
    [][ /\ uvc_stream_state' # uvc_stream_state
            => \/ /\ uvc_stream_state = UVC_STREAM_OFF
                  /\ uvc_stream_state' = UVC_STREAM_READY
                  /\ nreq' = nreq + 1 /\ pc' = pc
               \/ /\ uvc_stream_state = UVC_STREAM_READY
                  /\ uvc_stream_state' = UVC_STREAM_ON
                  /\ pc = "top" /\ pc' = "check" /\ nreq' = nreq
        /\ uvc_stream_state = UVC_STREAM_ON
            => uvc_stream_state' = UVC_STREAM_ON ]_vars

\* still ON after an oversize frame was dropped, a SET_CUR was accepted
\* while ON and the camera had no frame
C36_Witness ==
    /\ uvc_stream_state = UVC_STREAM_ON
    /\ Len(frames) = 1 /\ frames[1].len > UVC_BUFFER_SIZE /\ returned[1] = 1
    /\ nreq = MaxRequests
    /\ Len(ctl) = 1 /\ ctl[1].kind = "recv" /\ ctl[1].state = UVC_STREAM_ON
    /\ pc = "backoff"

\* the early returns of setup
SetupFailures == {"camera_failed", "alloc_failed", "sem_failed"}

\* C37: after a setup that failed at the camera, the buffer or the
\* semaphore, and for ever (a failed setup is not run again), the control
\* callback has served no request and the streaming task does not exist:
\* StreamState is OFF, ProbeCommitParameters is untouched, no frame was
\* acquired and nothing was written.  Whenever the streaming task exists,
\* setup has passed the three tests (the buffer is allocated) and
\* ProbeCommitParameters has been initialised.
C37_FailedSetupStartsNothing ==
    /\ [](boot \in SetupFailures
             => /\ pc = "none"
                /\ uvc_stream_state = UVC_STREAM_OFF
                /\ nreq = 0 /\ ~handled /\ ctl = << >>
                /\ uvc_control = ZeroControl
                /\ frames = << >> /\ fb = 0
                /\ chan = << >>
                /\ uvc_buffer = << >>)
    /\ [](pc # "none" => (boot = "running" /\ uvc_control # ZeroControl))
    /\ [][(boot \in SetupFailures) => (boot' = boot)]_vars

C37_Witness == boot = "alloc_failed" /\ pc = "none" /\ ~ENABLED Next

\* C38: while the task packetizes a frame, bytes_sent + bytes_remaining is
\* the frame length, which is at most UVC_BUFFER_SIZE, and data_ptr is
\* bytes_sent; every payload written starts inside the frame, has between 1
\* and UVC_PACKET_SIZE bytes, ends no later than the frame and holds no
\* byte of memory that was never written; the write of a payload lowers
\* bytes_remaining by that many bytes and never below 0; the streaming
\* buffer never holds more than UVC_BUFFER_SIZE bytes; a frame of length 0
\* is written nothing of and is returned once; with the task scheduled
\* fairly the loop of every frame ends and the frame is returned.
C38_PacketLoopTerminates ==
    /\ [](pc \in {"loop", "payload"}
             => /\ bytes_sent + bytes_remaining = jpeg_size
                /\ jpeg_size = frames[fb].len
                /\ jpeg_size <= UVC_BUFFER_SIZE
                /\ data_ptr = bytes_sent
                /\ bytes_remaining >= 0
                /\ pc = "payload" => bytes_remaining > 0)
    /\ [](RunsLen(uvc_buffer) <= UVC_BUFFER_SIZE)
    /\ [](\A i \in 1..Len(chan) :
             chan[i].kind = "data"
                => /\ chan[i].off >= 0
                   /\ chan[i].off < frames[chan[i].frame].len
                   /\ RunsLen(chan[i].data) \in 1..UVC_PACKET_SIZE
                   /\ chan[i].off + RunsLen(chan[i].data) <= frames[chan[i].frame].len
                   /\ \A j \in 1..Len(chan[i].data) : chan[i].data[j].seed # -1)
    /\ [][(pc = "payload" /\ pc' # pc)
             => /\ bytes_remaining - bytes_remaining' \in 1..UVC_PACKET_SIZE
                /\ bytes_remaining' >= 0
                /\ bytes_sent' - bytes_sent = bytes_remaining - bytes_remaining']_vars
    /\ [](\A k \in 1..Len(frames) :
             frames[k].len = 0
                => /\ Silent(k)
                   /\ returned[k] = (IF Finished(k) THEN 1 ELSE 0))
    /\ (pc \in {"got", "loop", "payload"}) ~> (pc = "yield" /\ returned[fb] = 1)

\* a three-packet frame went out whole and was returned, then a frame of
\* length 0 was returned with nothing written
C38_Witness ==
    /\ Len(frames) = 2
    /\ frames[1].len = 2 * UVC_PACKET_SIZE + 1
    /\ Len(TaskWrites(1, "data")) = 3
    /\ frames[2].len = 0
    /\ returned = <<1, 1>>
    /\ pc = "yield"
    /\ Len(chan) = 6

====
